---- MODULE Spec2Model ----
(***************************************************************************)
(* Model of the PCF857x I2C port expander driver (src/src/pcf857x.ts):     *)
(* the per-instance bitmask state engine, its asynchronous bus writes and  *)
(* reads, the process-wide table of shared interrupt GPIOs, and the        *)
(* PromiseQueue helper class.                                              *)
(***************************************************************************)
EXTENDS Integers, Sequences, FiniteSets, TLC

(***************************************************************************)
(* Bounds of the model.                                                    *)
(***************************************************************************)
\* pins 0..MaxPin are the ones the callers configure and set
MaxPin == 1
\* number of bus transactions that callers keep in flight at once
MaxInFlight == 2
\* number of writes kept in flight at once where only writes are made
MaxWrites == 3
\* number of driver instances in the process
NumInstances == 2
\* number of GPIO lines usable for interrupts
NumLines == 2
\* number of tasks handed to the PromiseQueue
MaxTasks == 3

(***************************************************************************)
(* Program constants.                                                      *)
(***************************************************************************)
DIR_UNDEF == -1
DIR_IN == 1
DIR_OUT == 0

\* null / undefined
Null == -1

Instances == 1..NumInstances
Lines == 1..NumLines
\* the tasks, numbered in the order in which they are enqueued
TaskIds == 1..MaxTasks
\* heap cells for Gpio objects: never more live objects than instances
GpioIds == 1..NumInstances

Types == {"PCF8574", "PCF8575"}

(***************************************************************************)
(* Bit arithmetic on non-negative integers, as JavaScript computes it      *)
(* for values below 2^31.                                                  *)
(***************************************************************************)
\* 1 << n
Pow2(n) == 2 ^ n

\* (x >> i) % 2
Bit(x, i) == (x \div Pow2(i)) % 2

RECURSIVE BitOr(_, _)
BitOr(a, b) == IF a = 0 THEN b ELSE IF b = 0 THEN a ELSE 2 * BitOr(a \div 2, b \div 2) + (IF a % 2 = 1 \/ b % 2 = 1 THEN 1 ELSE 0)

RECURSIVE BitXor(_, _)
BitXor(a, b) == IF a = 0 THEN b ELSE IF b = 0 THEN a ELSE 2 * BitXor(a \div 2, b \div 2) + (((a % 2) + (b % 2)) % 2)

\* number of pins of an IC type (constructor switch)
PinsOf(type) == IF type = "PCF8574" THEN 8 ELSE 16

SetStatePinOnlySets(current, pin, value) == IF Bit(current, pin) = 1 THEN current ELSE current + Pow2(pin)

\* _setStatePin(current, pin, value): current | 1 << pin sets bit pin,
\* current & ~(1 << pin) clears it, every other bit is kept
SetStatePin(current, pin, value) == IF value THEN (IF Bit(current, pin) = 1 THEN current ELSE current + Pow2(pin)) ELSE (IF Bit(current, pin) = 1 THEN current - Pow2(pin) ELSE current)

\* the Buffer handed to i2cWrite / i2cWriteSync for a state value
\* (x & 0xFF is x % 256, x >>> 8 is x \div 256)
WireBytes(type, icState) == IF type = "PCF8574" THEN <<icState % 256>> ELSE <<icState % 256, (icState \div 256) % 256>>

\* the state value decoded from a Buffer filled by i2cRead
ReadStateOf(type, buffer) == IF type = "PCF8574" THEN buffer[1] ELSE BitOr(buffer[1], buffer[2] * 256)

\* number of bytes of one bus transfer
WireLen(type) == IF type = "PCF8574" THEN 1 ELSE 2

(***************************************************************************)
(* Constructor: the result of new PCF857x(i2cBus, address, initialState,   *)
(* type).  initialState is [isBool, b, n]: a boolean b or a number n.      *)
(***************************************************************************)
ConstructorEightBit(address, initialState, type) ==
  LET resolved == IF initialState.isBool THEN (IF initialState.b THEN 255 ELSE 0) ELSE initialState.n
  IN  IF type \notin Types THEN [ok |-> FALSE, error |-> "Unsupported type", state |-> 0, written |-> <<>>]
      ELSE IF address < 0 \/ address > 255 THEN [ok |-> FALSE, error |-> "Address out of range", state |-> 0, written |-> <<>>]
      ELSE IF ~initialState.isBool /\ (initialState.n < 0 \/ initialState.n > Pow2(PinsOf(type)) - 1) THEN [ok |-> FALSE, error |-> "InitialState bitmask out of range", state |-> 0, written |-> <<>>]
      ELSE [ok |-> TRUE, error |-> "", state |-> resolved, written |-> WireBytes(type, resolved)]

ConstructorNoUpperBound(address, initialState, type) ==
  LET resolved == IF initialState.isBool THEN (IF initialState.b THEN Pow2(PinsOf(type)) - 1 ELSE 0) ELSE initialState.n
  IN  IF type \notin Types THEN [ok |-> FALSE, error |-> "Unsupported type", state |-> 0, written |-> <<>>]
      ELSE IF address < 0 \/ address > 255 THEN [ok |-> FALSE, error |-> "Address out of range", state |-> 0, written |-> <<>>]
      ELSE IF ~initialState.isBool /\ initialState.n < 0 THEN [ok |-> FALSE, error |-> "InitialState bitmask out of range", state |-> 0, written |-> <<>>]
      ELSE [ok |-> TRUE, error |-> "", state |-> resolved, written |-> WireBytes(type, resolved)]

Constructor(address, initialState, type) ==
  LET pins == PinsOf(type)
      full == Pow2(pins) - 1
      resolved == IF initialState.isBool THEN (IF initialState.b THEN full ELSE 0) ELSE initialState.n
  IN  IF type \notin Types THEN [ok |-> FALSE, error |-> "Unsupported type", state |-> 0, written |-> <<>>]
      ELSE IF address < 0 \/ address > 255 THEN [ok |-> FALSE, error |-> "Address out of range", state |-> 0, written |-> <<>>]
      ELSE IF ~initialState.isBool /\ (initialState.n < 0 \/ initialState.n > full) THEN [ok |-> FALSE, error |-> "InitialState bitmask out of range", state |-> 0, written |-> <<>>]
      ELSE [ok |-> TRUE, error |-> "", state |-> resolved, written |-> WireBytes(type, resolved)]

(***************************************************************************)
(* State.  Instance fields are functions over Instances.                   *)
(***************************************************************************)
VARIABLES
  icType,                \* _type
  directions,            \* _directions
  inputPinBitmask,       \* _inputPinBitmask
  inverted,              \* _inverted
  currentState,          \* _currentState
  currentlyPolling,      \* _currentlyPolling
  gpioPin,               \* _gpioPin
  gpio,                  \* _gpio: id of the Gpio object, or Null
  allInstancesUsedGpios, \* static _allInstancesUsedGpios: line -> Gpio id, or Null
  gpioObjs,              \* the Gpio objects: pin, pcf857xUseCount, listeners, exported
  inflight,              \* bus transactions whose callback has not been delivered, in issue order
  lastEvent,             \* the step just taken: call or callback, its outcome, the bytes it wrote
  emitted,               \* the 'input' events emitted by the step just taken, in order
  queue,                 \* PromiseQueue.queue: the items waiting, as task ids
  working,               \* PromiseQueue.working
  tasks                  \* each task: how far its promise chain has got, and its handle

engineVars == <<icType, directions, inputPinBitmask, inverted, currentState, currentlyPolling>>
irqVars == <<gpioPin, gpio, allInstancesUsedGpios, gpioObjs>>
queueVars == <<queue, working, tasks>>
deviceVars == <<engineVars, irqVars, inflight, lastEvent, emitted>>
vars == <<icType, directions, inputPinBitmask, inverted, currentState, currentlyPolling, gpioPin, gpio, allInstancesUsedGpios, gpioObjs, inflight, lastEvent, emitted, queue, working, tasks>>

Pins(i) == PinsOf(icType[i])

\* record of an API call step: value is the level the call gives its pin (or pins),
\* or the value it returns; wire the bytes it hands to i2cWrite / i2cWriteSync;
\* prev the instance's currentState before the call
Ev(ev, inst, op, pin, value, result, reason, wire, prev) == [ev |-> ev, inst |-> inst, op |-> op, pin |-> pin, value |-> value, result |-> result, reason |-> reason, wire |-> wire, prev |-> prev, idx |-> 0, read |-> <<>>]

\* record of a callback step: idx is the place the transaction had in inflight
CbEv(ev, inst, op, pin, result, reason, idx) == [ev |-> ev, inst |-> inst, op |-> op, pin |-> pin, value |-> FALSE, result |-> result, reason |-> reason, wire |-> <<>>, prev |-> 0, idx |-> idx, read |-> <<>>]

\* record of the callback step of a read that delivered buffer in full
ReadEv(inst, op, pin, idx, buffer) == [ev |-> "readCb", inst |-> inst, op |-> op, pin |-> pin, value |-> FALSE, result |-> "resolved", reason |-> "", wire |-> <<>>, prev |-> 0, idx |-> idx, read |-> buffer]

\* a pending bus transaction; its callback settles the promise of the call that issued it.
\* op is "write" (setPin, setAllPins, outputPin), "inputPin", "doPoll" or "irq";
\* pin is the pin of inputPin (polled with noEmit after its write), else Null
Txn(inst, kind, op, pin) == [inst |-> inst, kind |-> kind, op |-> op, pin |-> pin]

\* s without its k-th element
RemoveAt(s, k) == [j \in 1..(Len(s) - 1) |-> IF j < k THEN s[j] ELSE s[j + 1]]

\* a task that has not been enqueued yet.  stage: "new", "queued" (in queue),
\* "running" (item.promise() called, its promise pending), "settled" (its promise
\* fulfilled or rejected), "then" (the then-handler's job has run), "catch" (the
\* catch-handler's job has run), "done" (the finally-handler has run, or the task
\* function threw); throws: the task function throws when called; err: the task
\* failed; handle: the promise enqueue returned; during: what the queue was doing
\* when the task was enqueued ("idle", or the stage of the task then active)
NewTask == [stage |-> "new", throws |-> FALSE, err |-> FALSE, handle |-> "none", during |-> "none"]

\* an unused heap cell for a Gpio object
FreeGpio == [pin |-> Null, pcf857xUseCount |-> 0, listeners |-> <<>>, exported |-> FALSE]

(***************************************************************************)
(* Initial state: every instance constructed, nothing configured.          *)
(***************************************************************************)
\* the constructor arguments tried
InitialStates == {[isBool |-> TRUE, b |-> TRUE, n |-> 0], [isBool |-> TRUE, b |-> FALSE, n |-> 0]}
Addresses == {56}

\* the arguments every other instance is constructed with
DefaultType == "PCF8574"
DefaultInitialState == [isBool |-> TRUE, b |-> TRUE, n |-> 0]

\* the instances in varied are constructed with every combination of arguments
InitWith(varied) ==
  /\ icType \in {t \in [Instances -> Types] : \A i \in Instances \ varied : t[i] = DefaultType}
  /\ \E init \in {f \in [Instances -> InitialStates] : \A i \in Instances \ varied : f[i] = DefaultInitialState} : \E addr \in Addresses :
       /\ \A i \in Instances : Constructor(addr, init[i], icType[i]).ok
       /\ currentState = [i \in Instances |-> Constructor(addr, init[i], icType[i]).state]
  /\ directions = [i \in Instances |-> [p \in 0..(PinsOf(icType[i]) - 1) |-> DIR_UNDEF]]
  /\ inputPinBitmask = [i \in Instances |-> 0]
  /\ inverted = [i \in Instances |-> 0]
  /\ currentlyPolling = [i \in Instances |-> FALSE]
  /\ gpioPin = [i \in Instances |-> Null]
  /\ gpio = [i \in Instances |-> Null]
  /\ allInstancesUsedGpios = [l \in Lines |-> Null]
  /\ gpioObjs = [g \in GpioIds |-> FreeGpio]
  /\ inflight = <<>>
  /\ lastEvent = Ev("constructed", Null, "constructor", Null, FALSE, "returned", "", <<>>, 0)
  /\ emitted = <<>>
  /\ queue = <<>>
  /\ working = FALSE
  /\ tasks = [t \in TaskIds |-> NewTask]

(***************************************************************************)
(* The state engine.                                                       *)
(***************************************************************************)
\* the pin numbers callers pass: the configured pins and the two nearest out-of-range ones
PinArgs(i) == (-1..MaxPin) \cup {Pins(i)}

PinOutOfRange(i, pin) == pin < 0 \/ pin > Pins(i) - 1

\* the lowest and the highest pin of instance i
EdgePins(i) == {0, Pins(i) - 1}

SetNewStateNotStored(type, cur, inv, inMask, hasNew, newState) == [currentState |-> cur, wire |-> WireBytes(type, BitOr(BitXor(IF hasNew THEN newState ELSE cur, inv), inMask))]

SetNewStateNoInversion(type, cur, inv, inMask, hasNew, newState) == [currentState |-> IF hasNew THEN newState ELSE cur, wire |-> WireBytes(type, BitOr(IF hasNew THEN newState ELSE cur, inMask))]

SetNewStateNoInputHigh(type, cur, inv, inMask, hasNew, newState) == [currentState |-> IF hasNew THEN newState ELSE cur, wire |-> WireBytes(type, BitXor(IF hasNew THEN newState ELSE cur, inv))]

\* _setNewState(newState?): the state it stores and the bytes it hands to i2cWrite
SetNewState(type, cur, inv, inMask, hasNew, newState) ==
  LET stored == IF hasNew THEN newState ELSE cur
      newIcState == BitOr(BitXor(stored, inv), inMask)
  IN  [currentState |-> stored, wire |-> WireBytes(type, newIcState)]

SetPinInternalNoChange(cur, pin, value) == cur

\* _setPinInternal(pin, value): the new state passed to _setNewState
SetPinInternal(cur, pin, value) == SetStatePin(cur, pin, value)

RECURSIVE SetAllLoopEveryPin(_, _, _, _, _)
SetAllLoopEveryPin(newState, dirs, pin, n, value) ==
  IF pin >= n THEN newState
  ELSE SetAllLoopEveryPin(SetStatePin(newState, pin, value), dirs, pin + 1, n, value)

RECURSIVE SetAllLoopOnePinMore(_, _, _, _, _)
SetAllLoopOnePinMore(newState, dirs, pin, n, value) ==
  IF pin >= n THEN SetStatePin(newState, n, value)
  ELSE IF dirs[pin] # DIR_OUT THEN SetAllLoopOnePinMore(newState, dirs, pin + 1, n, value)
  ELSE SetAllLoopOnePinMore(SetStatePin(newState, pin, value), dirs, pin + 1, n, value)

\* the loop of setAllPins over pins pin..n-1
RECURSIVE SetAllLoop(_, _, _, _, _)
SetAllLoop(newState, dirs, pin, n, value) ==
  IF pin >= n THEN newState
  ELSE IF dirs[pin] # DIR_OUT THEN SetAllLoop(newState, dirs, pin + 1, n, value)
  ELSE SetAllLoop(SetStatePin(newState, pin, value), dirs, pin + 1, n, value)

RECURSIVE ProcessReadLoopAllPins(_, _, _, _, _, _, _)
ProcessReadLoopAllPins(cur, readState, dirs, pin, n, noEmit, events) ==
  IF pin >= n THEN [currentState |-> cur, events |-> events]
  ELSE IF Bit(cur, pin) # Bit(readState, pin)
       THEN LET value == Bit(readState, pin) # 0
            IN  ProcessReadLoopAllPins(SetStatePin(cur, pin, value), readState, dirs, pin + 1, n, noEmit, IF noEmit # pin THEN Append(events, [pin |-> pin, value |-> value]) ELSE events)
       ELSE ProcessReadLoopAllPins(cur, readState, dirs, pin + 1, n, noEmit, events)

RECURSIVE ProcessReadLoopNoSuppress(_, _, _, _, _, _, _)
ProcessReadLoopNoSuppress(cur, readState, dirs, pin, n, noEmit, events) ==
  IF pin >= n THEN [currentState |-> cur, events |-> events]
  ELSE IF dirs[pin] # DIR_IN THEN ProcessReadLoopNoSuppress(cur, readState, dirs, pin + 1, n, noEmit, events)
  ELSE IF Bit(cur, pin) # Bit(readState, pin)
       THEN LET value == Bit(readState, pin) # 0
            IN  ProcessReadLoopNoSuppress(SetStatePin(cur, pin, value), readState, dirs, pin + 1, n, noEmit, Append(events, [pin |-> pin, value |-> value]))
       ELSE ProcessReadLoopNoSuppress(cur, readState, dirs, pin + 1, n, noEmit, events)

RECURSIVE ProcessReadLoopNotStored(_, _, _, _, _, _, _)
ProcessReadLoopNotStored(cur, readState, dirs, pin, n, noEmit, events) ==
  IF pin >= n THEN [currentState |-> cur, events |-> events]
  ELSE IF dirs[pin] # DIR_IN THEN ProcessReadLoopNotStored(cur, readState, dirs, pin + 1, n, noEmit, events)
  ELSE IF Bit(cur, pin) # Bit(readState, pin)
       THEN LET value == Bit(readState, pin) # 0
            IN  ProcessReadLoopNotStored(cur, readState, dirs, pin + 1, n, noEmit, IF noEmit # pin THEN Append(events, [pin |-> pin, value |-> value]) ELSE events)
       ELSE ProcessReadLoopNotStored(cur, readState, dirs, pin + 1, n, noEmit, events)

\* processRead's loop over pins pin..n-1: the new state and the events emitted
RECURSIVE ProcessReadLoop(_, _, _, _, _, _, _)
ProcessReadLoop(cur, readState, dirs, pin, n, noEmit, events) ==
  IF pin >= n THEN [currentState |-> cur, events |-> events]
  ELSE IF dirs[pin] # DIR_IN THEN ProcessReadLoop(cur, readState, dirs, pin + 1, n, noEmit, events)
  ELSE IF Bit(cur, pin) # Bit(readState, pin)
       THEN LET value == Bit(readState, pin) # 0
            IN  ProcessReadLoop(SetStatePin(cur, pin, value), readState, dirs, pin + 1, n, noEmit, IF noEmit # pin THEN Append(events, [pin |-> pin, value |-> value]) ELSE events)
       ELSE ProcessReadLoop(cur, readState, dirs, pin + 1, n, noEmit, events)

RECURSIVE ListenerViewsEmitFirst(_, _, _, _, _, _, _)
ListenerViewsEmitFirst(cur, readState, dirs, pin, n, noEmit, views) ==
  IF pin >= n THEN views
  ELSE IF dirs[pin] # DIR_IN THEN ListenerViewsEmitFirst(cur, readState, dirs, pin + 1, n, noEmit, views)
  ELSE IF Bit(cur, pin) # Bit(readState, pin)
       THEN LET value == Bit(readState, pin) # 0
            IN  ListenerViewsEmitFirst(SetStatePin(cur, pin, value), readState, dirs, pin + 1, n, noEmit, IF noEmit # pin THEN Append(views, [pin |-> pin, value |-> value, state |-> cur]) ELSE views)
       ELSE ListenerViewsEmitFirst(cur, readState, dirs, pin + 1, n, noEmit, views)

\* processRead's loop over pins pin..n-1 as the listeners of 'input' see it: for each
\* event, in order, its data and the _currentState at the time emit() is called
RECURSIVE ListenerViews(_, _, _, _, _, _, _)
ListenerViews(cur, readState, dirs, pin, n, noEmit, views) ==
  IF pin >= n THEN views
  ELSE IF dirs[pin] # DIR_IN THEN ListenerViews(cur, readState, dirs, pin + 1, n, noEmit, views)
  ELSE IF Bit(cur, pin) # Bit(readState, pin)
       THEN LET value == Bit(readState, pin) # 0
                stored == SetStatePin(cur, pin, value)
            IN  ListenerViews(stored, readState, dirs, pin + 1, n, noEmit, IF noEmit # pin THEN Append(views, [pin |-> pin, value |-> value, state |-> stored]) ELSE views)
       ELSE ListenerViews(cur, readState, dirs, pin + 1, n, noEmit, views)

ProcessReadNoInversion(cur, readState, inv, dirs, n, noEmit) == ProcessReadLoop(cur, readState, dirs, 0, n, noEmit, <<>>)

\* processRead(readState)
ProcessRead(cur, readState, inv, dirs, n, noEmit) == ProcessReadLoop(cur, BitXor(readState, inv), dirs, 0, n, noEmit, <<>>)

\* callers keep at most MaxInFlight bus transactions pending
CanIssue == Len(inflight) < MaxInFlight

OutputPinAlwaysWrites(i, pin, inv, hasInitial, initialValue) ==
  /\ emitted' = <<>>
  /\ UNCHANGED <<icType, currentlyPolling, irqVars>>
  /\ IF PinOutOfRange(i, pin)
     THEN /\ lastEvent' = Ev("call", i, "outputPin", pin, FALSE, "rejected", "Pin out of range", <<>>, currentState[i])
          /\ UNCHANGED <<directions, inputPinBitmask, inverted, currentState, inflight>>
     ELSE LET inv2 == SetStatePin(inverted[i], pin, inv)
              mask2 == SetStatePin(inputPinBitmask[i], pin, FALSE)
              w == SetNewState(icType[i], currentState[i], inv2, mask2, TRUE, SetPinInternal(currentState[i], pin, initialValue))
          IN  /\ inverted' = [inverted EXCEPT ![i] = inv2]
              /\ inputPinBitmask' = [inputPinBitmask EXCEPT ![i] = mask2]
              /\ directions' = [directions EXCEPT ![i][pin] = DIR_OUT]
              /\ currentState' = [currentState EXCEPT ![i] = w.currentState]
              /\ inflight' = Append(inflight, Txn(i, "write", "write", Null))
              /\ lastEvent' = Ev("call", i, "outputPin", pin, initialValue, IF hasInitial THEN "pending" ELSE "resolved", "", w.wire, currentState[i])

OutputPinInvertedKept(i, pin, inv, hasInitial, initialValue) ==
  /\ emitted' = <<>>
  /\ UNCHANGED <<icType, currentlyPolling, irqVars>>
  /\ IF PinOutOfRange(i, pin)
     THEN /\ lastEvent' = Ev("call", i, "outputPin", pin, FALSE, "rejected", "Pin out of range", <<>>, currentState[i])
          /\ UNCHANGED <<directions, inputPinBitmask, inverted, currentState, inflight>>
     ELSE LET inv2 == IF hasInitial THEN SetStatePin(inverted[i], pin, inv) ELSE inverted[i]
              mask2 == SetStatePin(inputPinBitmask[i], pin, FALSE)
              w == SetNewState(icType[i], currentState[i], inv2, mask2, TRUE, SetPinInternal(currentState[i], pin, initialValue))
          IN  /\ inverted' = [inverted EXCEPT ![i] = inv2]
              /\ inputPinBitmask' = [inputPinBitmask EXCEPT ![i] = mask2]
              /\ directions' = [directions EXCEPT ![i][pin] = DIR_OUT]
              /\ IF ~hasInitial
                 THEN /\ lastEvent' = Ev("call", i, "outputPin", pin, FALSE, "resolved", "", <<>>, currentState[i])
                      /\ UNCHANGED <<currentState, inflight>>
                 ELSE /\ currentState' = [currentState EXCEPT ![i] = w.currentState]
                      /\ inflight' = Append(inflight, Txn(i, "write", "write", Null))
                      /\ lastEvent' = Ev("call", i, "outputPin", pin, initialValue, "pending", "", w.wire, currentState[i])

\* outputPin(pin, inverted, initialValue?)
OutputPin(i, pin, inv, hasInitial, initialValue) ==
  /\ emitted' = <<>>
  /\ UNCHANGED <<icType, currentlyPolling, irqVars>>
  /\ IF PinOutOfRange(i, pin)
     THEN /\ lastEvent' = Ev("call", i, "outputPin", pin, FALSE, "rejected", "Pin out of range", <<>>, currentState[i])
          /\ UNCHANGED <<directions, inputPinBitmask, inverted, currentState, inflight>>
     ELSE LET inv2 == SetStatePin(inverted[i], pin, inv)
              mask2 == SetStatePin(inputPinBitmask[i], pin, FALSE)
              w == SetNewState(icType[i], currentState[i], inv2, mask2, TRUE, SetPinInternal(currentState[i], pin, initialValue))
          IN  /\ inverted' = [inverted EXCEPT ![i] = inv2]
              /\ inputPinBitmask' = [inputPinBitmask EXCEPT ![i] = mask2]
              /\ directions' = [directions EXCEPT ![i][pin] = DIR_OUT]
              /\ IF ~hasInitial
                 THEN /\ lastEvent' = Ev("call", i, "outputPin", pin, FALSE, "resolved", "", <<>>, currentState[i])
                      /\ UNCHANGED <<currentState, inflight>>
                 ELSE /\ currentState' = [currentState EXCEPT ![i] = w.currentState]
                      /\ inflight' = Append(inflight, Txn(i, "write", "write", Null))
                      /\ lastEvent' = Ev("call", i, "outputPin", pin, initialValue, "pending", "", w.wire, currentState[i])

InputPinCheckedLate(i, pin, inv) ==
  /\ emitted' = <<>>
  /\ UNCHANGED <<icType, currentlyPolling, irqVars>>
  /\ IF PinOutOfRange(i, pin)
     THEN /\ lastEvent' = Ev("call", i, "inputPin", pin, FALSE, "rejected", "Pin out of range", <<>>, currentState[i])
          /\ inflight' = Append(inflight, Txn(i, "write", "write", Null))
          /\ UNCHANGED <<directions, inputPinBitmask, inverted, currentState>>
     ELSE LET inv2 == SetStatePin(inverted[i], pin, inv)
              mask2 == SetStatePin(inputPinBitmask[i], pin, TRUE)
              w == SetNewState(icType[i], currentState[i], inv2, mask2, FALSE, 0)
          IN  /\ inverted' = [inverted EXCEPT ![i] = inv2]
              /\ inputPinBitmask' = [inputPinBitmask EXCEPT ![i] = mask2]
              /\ directions' = [directions EXCEPT ![i][pin] = DIR_IN]
              /\ currentState' = [currentState EXCEPT ![i] = w.currentState]
              /\ inflight' = Append(inflight, Txn(i, "write", "inputPin", pin))
              /\ lastEvent' = Ev("call", i, "inputPin", pin, FALSE, "pending", "", w.wire, currentState[i])

\* inputPin(pin, inverted), up to the i2cWrite it issues
InputPin(i, pin, inv) ==
  /\ emitted' = <<>>
  /\ UNCHANGED <<icType, currentlyPolling, irqVars>>
  /\ IF PinOutOfRange(i, pin)
     THEN /\ lastEvent' = Ev("call", i, "inputPin", pin, FALSE, "rejected", "Pin out of range", <<>>, currentState[i])
          /\ UNCHANGED <<directions, inputPinBitmask, inverted, currentState, inflight>>
     ELSE LET inv2 == SetStatePin(inverted[i], pin, inv)
              mask2 == SetStatePin(inputPinBitmask[i], pin, TRUE)
              w == SetNewState(icType[i], currentState[i], inv2, mask2, FALSE, 0)
          IN  /\ inverted' = [inverted EXCEPT ![i] = inv2]
              /\ inputPinBitmask' = [inputPinBitmask EXCEPT ![i] = mask2]
              /\ directions' = [directions EXCEPT ![i][pin] = DIR_IN]
              /\ currentState' = [currentState EXCEPT ![i] = w.currentState]
              /\ inflight' = Append(inflight, Txn(i, "write", "inputPin", pin))
              /\ lastEvent' = Ev("call", i, "inputPin", pin, FALSE, "pending", "", w.wire, currentState[i])

SetPinAnyDirection(i, pin, hasValue, value) ==
  /\ emitted' = <<>>
  /\ UNCHANGED <<icType, directions, inputPinBitmask, inverted, currentlyPolling, irqVars>>
  /\ IF PinOutOfRange(i, pin)
     THEN /\ lastEvent' = Ev("call", i, "setPin", pin, FALSE, "rejected", "Pin out of range", <<>>, currentState[i])
          /\ UNCHANGED <<currentState, inflight>>
     ELSE LET v == IF hasValue THEN value ELSE ~(Bit(currentState[i], pin) # 0)
              w == SetNewState(icType[i], currentState[i], inverted[i], inputPinBitmask[i], TRUE, SetPinInternal(currentState[i], pin, v))
          IN  /\ currentState' = [currentState EXCEPT ![i] = w.currentState]
              /\ inflight' = Append(inflight, Txn(i, "write", "write", Null))
              /\ lastEvent' = Ev("call", i, "setPin", pin, v, "pending", "", w.wire, currentState[i])

SetPinStale(i, pin, hasValue, value) ==
  /\ emitted' = <<>>
  /\ UNCHANGED <<icType, directions, inputPinBitmask, inverted, currentlyPolling, irqVars>>
  /\ IF PinOutOfRange(i, pin)
     THEN /\ lastEvent' = Ev("call", i, "setPin", pin, FALSE, "rejected", "Pin out of range", <<>>, currentState[i])
          /\ UNCHANGED <<currentState, inflight>>
     ELSE IF directions[i][pin] # DIR_OUT
     THEN /\ lastEvent' = Ev("call", i, "setPin", pin, FALSE, "rejected", "Pin is not defined as output", <<>>, currentState[i])
          /\ UNCHANGED <<currentState, inflight>>
     ELSE LET base == IF lastEvent.ev = "call" /\ lastEvent.result = "pending" /\ lastEvent.inst = i THEN lastEvent.prev ELSE currentState[i]
              v == IF hasValue THEN value ELSE ~(Bit(base, pin) # 0)
              w == SetNewState(icType[i], base, inverted[i], inputPinBitmask[i], TRUE, SetPinInternal(base, pin, v))
          IN  /\ currentState' = [currentState EXCEPT ![i] = w.currentState]
              /\ inflight' = Append(inflight, Txn(i, "write", "write", Null))
              /\ lastEvent' = Ev("call", i, "setPin", pin, v, "pending", "", w.wire, currentState[i])

SetPinNoToggle(i, pin, hasValue, value) ==
  /\ emitted' = <<>>
  /\ UNCHANGED <<icType, directions, inputPinBitmask, inverted, currentlyPolling, irqVars>>
  /\ IF PinOutOfRange(i, pin)
     THEN /\ lastEvent' = Ev("call", i, "setPin", pin, FALSE, "rejected", "Pin out of range", <<>>, currentState[i])
          /\ UNCHANGED <<currentState, inflight>>
     ELSE IF directions[i][pin] # DIR_OUT
     THEN /\ lastEvent' = Ev("call", i, "setPin", pin, FALSE, "rejected", "Pin is not defined as output", <<>>, currentState[i])
          /\ UNCHANGED <<currentState, inflight>>
     ELSE LET w == SetNewState(icType[i], currentState[i], inverted[i], inputPinBitmask[i], TRUE, SetPinInternal(currentState[i], pin, value))
          IN  /\ currentState' = [currentState EXCEPT ![i] = w.currentState]
              /\ inflight' = Append(inflight, Txn(i, "write", "write", Null))
              /\ lastEvent' = Ev("call", i, "setPin", pin, value, "pending", "", w.wire, currentState[i])

\* setPin(pin, value?)
SetPin(i, pin, hasValue, value) ==
  /\ emitted' = <<>>
  /\ UNCHANGED <<icType, directions, inputPinBitmask, inverted, currentlyPolling, irqVars>>
  /\ IF PinOutOfRange(i, pin)
     THEN /\ lastEvent' = Ev("call", i, "setPin", pin, FALSE, "rejected", "Pin out of range", <<>>, currentState[i])
          /\ UNCHANGED <<currentState, inflight>>
     ELSE IF directions[i][pin] # DIR_OUT
     THEN /\ lastEvent' = Ev("call", i, "setPin", pin, FALSE, "rejected", "Pin is not defined as output", <<>>, currentState[i])
          /\ UNCHANGED <<currentState, inflight>>
     ELSE LET v == IF hasValue THEN value ELSE ~(Bit(currentState[i], pin) # 0)
              w == SetNewState(icType[i], currentState[i], inverted[i], inputPinBitmask[i], TRUE, SetPinInternal(currentState[i], pin, v))
          IN  /\ currentState' = [currentState EXCEPT ![i] = w.currentState]
              /\ inflight' = Append(inflight, Txn(i, "write", "write", Null))
              /\ lastEvent' = Ev("call", i, "setPin", pin, v, "pending", "", w.wire, currentState[i])

\* setAllPins(value)
SetAllPins(i, value) ==
  /\ emitted' = <<>>
  /\ UNCHANGED <<icType, directions, inputPinBitmask, inverted, currentlyPolling, irqVars>>
  /\ LET newState == SetAllLoop(currentState[i], directions[i], 0, Pins(i), value)
         w == SetNewState(icType[i], currentState[i], inverted[i], inputPinBitmask[i], TRUE, newState)
     IN  /\ currentState' = [currentState EXCEPT ![i] = w.currentState]
         /\ inflight' = Append(inflight, Txn(i, "write", "write", Null))
         /\ lastEvent' = Ev("call", i, "setAllPins", Null, value, "pending", "", w.wire, currentState[i])

GetPinValueElectrical(i, pin) == IF PinOutOfRange(i, pin) THEN FALSE ELSE Bit(BitXor(currentState[i], inverted[i]), pin) # 0

\* getPinValue(pin): the value it returns
GetPinValue(i, pin) == IF PinOutOfRange(i, pin) THEN FALSE ELSE Bit(currentState[i], pin) # 0

\* a call of getPinValue(pin)
GetPinValueCall(i, pin) ==
  /\ emitted' = <<>>
  /\ lastEvent' = Ev("call", i, "getPinValue", pin, GetPinValue(i, pin), "returned", "", <<>>, 0)
  /\ UNCHANGED <<engineVars, irqVars, inflight>>

\* dev = new PCF857x(i2cBus, address, initialState, type) for the variable that holds
\* instance i, made when nothing refers to the object it held any more; syncErr:
\* i2cWriteSync throws.  When the constructor throws the variable keeps its object.
New(i, address, initialState, type, syncErr) ==
  /\ \A k \in 1..Len(inflight) : inflight[k].inst # i
  /\ gpio[i] = Null
  /\ emitted' = <<>>
  /\ UNCHANGED <<irqVars, inflight>>
  /\ LET c == Constructor(address, initialState, type)
     IN  IF ~c.ok
         THEN /\ lastEvent' = Ev("call", i, "constructor", Null, FALSE, "thrown", c.error, <<>>, 0)
              /\ UNCHANGED engineVars
         ELSE IF syncErr
         THEN /\ lastEvent' = Ev("call", i, "constructor", Null, FALSE, "thrown", "bus error", c.written, 0)
              /\ UNCHANGED engineVars
         ELSE /\ lastEvent' = Ev("call", i, "constructor", Null, FALSE, "returned", "", c.written, 0)
              /\ icType' = [icType EXCEPT ![i] = type]
              /\ directions' = [directions EXCEPT ![i] = [p \in 0..(PinsOf(type) - 1) |-> DIR_UNDEF]]
              /\ inputPinBitmask' = [inputPinBitmask EXCEPT ![i] = 0]
              /\ inverted' = [inverted EXCEPT ![i] = 0]
              /\ currentState' = [currentState EXCEPT ![i] = c.state]
              /\ currentlyPolling' = [currentlyPolling EXCEPT ![i] = FALSE]

PollNoCheck(polling) == [started |-> TRUE, reason |-> ""]

\* _poll(noEmit?), lines 329-333: whether the poll is started or rejected at once
Poll(polling) == IF polling THEN [started |-> FALSE, reason |-> "An other poll is in progress"] ELSE [started |-> TRUE, reason |-> ""]

\* doPoll()
DoPoll(i) ==
  /\ emitted' = <<>>
  /\ UNCHANGED <<icType, directions, inputPinBitmask, inverted, currentState, irqVars>>
  /\ LET p == Poll(currentlyPolling[i])
     IN  IF p.started
         THEN /\ currentlyPolling' = [currentlyPolling EXCEPT ![i] = TRUE]
              /\ inflight' = Append(inflight, Txn(i, "read", "doPoll", Null))
              /\ lastEvent' = Ev("call", i, "doPoll", Null, FALSE, "pending", "", <<>>, currentState[i])
         ELSE /\ lastEvent' = Ev("call", i, "doPoll", Null, FALSE, "rejected", p.reason, <<>>, currentState[i])
              /\ UNCHANGED <<currentlyPolling, inflight>>

CbPollAfterFailure(k, err) ==
  /\ k \in 1..Len(inflight)
  /\ inflight[k].kind = "write"
  /\ emitted' = <<>>
  /\ UNCHANGED <<icType, directions, inputPinBitmask, inverted, currentState, irqVars>>
  /\ LET t == inflight[k]
         p == Poll(currentlyPolling[t.inst])
     IN  IF t.op # "inputPin"
         THEN /\ inflight' = RemoveAt(inflight, k)
              /\ lastEvent' = CbEv("writeCb", t.inst, t.op, t.pin, IF err THEN "rejected" ELSE "resolved", IF err THEN "bus error" ELSE "", k)
              /\ UNCHANGED currentlyPolling
         ELSE IF p.started
         THEN /\ currentlyPolling' = [currentlyPolling EXCEPT ![t.inst] = TRUE]
              /\ inflight' = Append(RemoveAt(inflight, k), Txn(t.inst, "read", "inputPin", t.pin))
              /\ lastEvent' = CbEv("writeCb", t.inst, t.op, t.pin, IF err THEN "rejected" ELSE "pending", IF err THEN "bus error" ELSE "", k)
         ELSE /\ inflight' = RemoveAt(inflight, k)
              /\ lastEvent' = CbEv("writeCb", t.inst, t.op, t.pin, "rejected", IF err THEN "bus error" ELSE p.reason, k)
              /\ UNCHANGED currentlyPolling

\* the callback cb of _setNewState, created for the k-th pending transaction, called
\* with err, and, for inputPin, the then-handler that runs right after it and calls _poll(pin)
Cb(k, err) ==
  /\ k \in 1..Len(inflight)
  /\ inflight[k].kind = "write"
  /\ emitted' = <<>>
  /\ UNCHANGED <<icType, directions, inputPinBitmask, inverted, currentState, irqVars>>
  /\ LET t == inflight[k]
         p == Poll(currentlyPolling[t.inst])
     IN  IF err
         THEN /\ inflight' = RemoveAt(inflight, k)
              /\ lastEvent' = CbEv("writeCb", t.inst, t.op, t.pin, "rejected", "bus error", k)
              /\ UNCHANGED currentlyPolling
         ELSE IF t.op # "inputPin"
         THEN /\ inflight' = RemoveAt(inflight, k)
              /\ lastEvent' = CbEv("writeCb", t.inst, t.op, t.pin, "resolved", "", k)
              /\ UNCHANGED currentlyPolling
         ELSE IF p.started
         THEN /\ currentlyPolling' = [currentlyPolling EXCEPT ![t.inst] = TRUE]
              /\ inflight' = Append(RemoveAt(inflight, k), Txn(t.inst, "read", "inputPin", t.pin))
              /\ lastEvent' = CbEv("writeCb", t.inst, t.op, t.pin, "pending", "", k)
         ELSE /\ inflight' = RemoveAt(inflight, k)
              /\ lastEvent' = CbEv("writeCb", t.inst, t.op, t.pin, "rejected", p.reason, k)
              /\ UNCHANGED currentlyPolling

\* the oldest pending write of the instance of transaction k
OldestWrite(k) == CHOOSE j \in 1..Len(inflight) : inflight[j].inst = inflight[k].inst /\ inflight[j].kind = "write" /\ \A m \in 1..(j - 1) : ~(inflight[m].inst = inflight[k].inst /\ inflight[m].kind = "write")

WriteCallbackOldestFirst(k, err) == k \in 1..Len(inflight) /\ inflight[k].kind = "write" /\ Cb(OldestWrite(k), err)

\* i2cWrite completes the k-th pending transaction and calls the cb it was given
WriteCallback(k, err) == Cb(k, err)

\* the bytes a read can deliver: every level of pins 0..MaxPin, the other pins all low or all high
ReadByte0 == {lo + hi : lo \in 0..(Pow2(MaxPin + 1) - 1), hi \in {0, 256 - Pow2(MaxPin + 1)}}
ReadBuffers(type) == IF type = "PCF8574" THEN {<<b>> : b \in ReadByte0} ELSE {<<b, h>> : b \in ReadByte0, h \in {0, 255}}

ReadCallbackNoLengthCheck(k, err, bytesRead, buffer) ==
  /\ k \in 1..Len(inflight)
  /\ inflight[k].kind = "read"
  /\ UNCHANGED <<icType, directions, inputPinBitmask, inverted, irqVars>>
  /\ LET t == inflight[k]
         i == t.inst
         r == ProcessRead(currentState[i], ReadStateOf(icType[i], buffer), inverted[i], directions[i], Pins(i), t.pin)
     IN  /\ currentlyPolling' = [currentlyPolling EXCEPT ![i] = FALSE]
         /\ inflight' = RemoveAt(inflight, k)
         /\ currentState' = [currentState EXCEPT ![i] = IF err THEN @ ELSE r.currentState]
         /\ emitted' = IF err THEN <<>> ELSE r.events
         /\ lastEvent' = IF err \/ bytesRead # WireLen(icType[i]) THEN CbEv("readCb", i, t.op, t.pin, IF t.op = "irq" THEN "swallowed" ELSE "rejected", "bus error", k) ELSE ReadEv(i, t.op, t.pin, k, buffer)

ReadCallbackFlagKeptOnError(k, err, bytesRead, buffer) ==
  /\ k \in 1..Len(inflight)
  /\ inflight[k].kind = "read"
  /\ UNCHANGED <<icType, directions, inputPinBitmask, inverted, irqVars>>
  /\ LET t == inflight[k]
         i == t.inst
         r == ProcessRead(currentState[i], ReadStateOf(icType[i], buffer), inverted[i], directions[i], Pins(i), t.pin)
     IN  /\ inflight' = RemoveAt(inflight, k)
         /\ IF err \/ bytesRead # WireLen(icType[i])
            THEN /\ lastEvent' = CbEv("readCb", i, t.op, t.pin, IF t.op = "irq" THEN "swallowed" ELSE "rejected", "bus error", k)
                 /\ emitted' = <<>>
                 /\ UNCHANGED <<currentState, currentlyPolling>>
            ELSE /\ currentState' = [currentState EXCEPT ![i] = r.currentState]
                 /\ currentlyPolling' = [currentlyPolling EXCEPT ![i] = FALSE]
                 /\ emitted' = r.events
                 /\ lastEvent' = ReadEv(i, t.op, t.pin, k, buffer)

\* the callback of _poll's i2cRead, for the k-th pending transaction
ReadCallback(k, err, bytesRead, buffer) ==
  /\ k \in 1..Len(inflight)
  /\ inflight[k].kind = "read"
  /\ UNCHANGED <<icType, directions, inputPinBitmask, inverted, irqVars>>
  /\ LET t == inflight[k]
         i == t.inst
         r == ProcessRead(currentState[i], ReadStateOf(icType[i], buffer), inverted[i], directions[i], Pins(i), t.pin)
     IN  /\ currentlyPolling' = [currentlyPolling EXCEPT ![i] = FALSE]
         /\ inflight' = RemoveAt(inflight, k)
         /\ IF err \/ bytesRead # WireLen(icType[i])
            THEN /\ lastEvent' = CbEv("readCb", i, t.op, t.pin, IF t.op = "irq" THEN "swallowed" ELSE "rejected", "bus error", k)
                 /\ emitted' = <<>>
                 /\ UNCHANGED currentState
            ELSE /\ currentState' = [currentState EXCEPT ![i] = r.currentState]
                 /\ emitted' = r.events
                 /\ lastEvent' = ReadEv(i, t.op, t.pin, k, buffer)

(***************************************************************************)
(* Shared interrupt GPIOs.                                                 *)
(***************************************************************************)
\* the heap cell new Gpio(...) gets: one that holds no object any reference reaches
NewGpioId == CHOOSE g \in GpioIds : ~gpioObjs[g].exported /\ (\A j \in Instances : gpio[j] # g) /\ (\A l \in Lines : allInstancesUsedGpios[l] # g)

\* Gpio.watch(callback): the listeners with the handler of instance i added
Watch(listeners, i) == Append(listeners, i)

UnwatchNothing(listeners, i) == listeners

\* Gpio.unwatch(callback): the listeners without the handler of instance i
Unwatch(listeners, i) == SelectSeq(listeners, LAMBDA x : x # i)

NeverEnabled(g) == FALSE

\* the guard of enableInterrupt: this._gpio !== null
InterruptEnabled(g) == g # Null

NeverReleased(count) == FALSE

ReleasedAtOnce(count) == TRUE

\* disableInterrupt's test for releasing the line: pcf857xUseCount === 0
NotUsedAnymore(count) == count = 0

\* enableInterrupt(gpioPin)
EnableInterrupt(i, line) ==
  /\ emitted' = <<>>
  /\ UNCHANGED <<engineVars, inflight>>
  /\ IF InterruptEnabled(gpio[i])
     THEN /\ lastEvent' = Ev("call", i, "enableInterrupt", line, FALSE, "thrown", "GPIO interrupt already enabled.", <<>>, currentState[i])
          /\ UNCHANGED irqVars
     ELSE /\ lastEvent' = Ev("call", i, "enableInterrupt", line, FALSE, "returned", "", <<>>, currentState[i])
          /\ gpioPin' = [gpioPin EXCEPT ![i] = line]
          /\ IF allInstancesUsedGpios[line] # Null
             THEN LET g == allInstancesUsedGpios[line]
                  IN  /\ gpio' = [gpio EXCEPT ![i] = g]
                      /\ gpioObjs' = [gpioObjs EXCEPT ![g].pcf857xUseCount = @ + 1, ![g].listeners = Watch(@, i)]
                      /\ UNCHANGED allInstancesUsedGpios
             ELSE LET g == NewGpioId
                  IN  /\ gpio' = [gpio EXCEPT ![i] = g]
                      /\ gpioObjs' = [gpioObjs EXCEPT ![g] = [pin |-> line, pcf857xUseCount |-> 1, listeners |-> Watch(<<>>, i), exported |-> TRUE]]
                      /\ allInstancesUsedGpios' = [allInstancesUsedGpios EXCEPT ![line] = g]

\* disableInterrupt()
DisableInterrupt(i) ==
  /\ emitted' = <<>>
  /\ UNCHANGED <<engineVars, inflight>>
  /\ lastEvent' = Ev("call", i, "disableInterrupt", gpioPin[i], FALSE, "returned", "", <<>>, currentState[i])
  /\ IF gpio[i] # Null
     THEN LET g == gpio[i]
              count == gpioObjs[g].pcf857xUseCount - 1
          IN  /\ gpioObjs' = [gpioObjs EXCEPT ![g].listeners = Unwatch(@, i), ![g].pcf857xUseCount = count, ![g].exported = IF NotUsedAnymore(count) THEN FALSE ELSE @]
              /\ allInstancesUsedGpios' = IF NotUsedAnymore(count) /\ gpioPin[i] # Null THEN [allInstancesUsedGpios EXCEPT ![gpioPin[i]] = Null] ELSE allInstancesUsedGpios
              /\ gpioPin' = [gpioPin EXCEPT ![i] = Null]
              /\ gpio' = [gpio EXCEPT ![i] = Null]
     ELSE UNCHANGED irqVars

HandleInterruptsFirstOnly(listeners, k, polling, pending) ==
  IF listeners = <<>> \/ ~Poll(polling[listeners[1]]).started THEN [currentlyPolling |-> polling, inflight |-> pending]
  ELSE [currentlyPolling |-> [polling EXCEPT ![listeners[1]] = TRUE], inflight |-> Append(pending, Txn(listeners[1], "read", "irq", Null))]

\* _handleInterrupt() of each listener in turn: the polling flags and pending reads afterwards
RECURSIVE HandleInterrupts(_, _, _, _)
HandleInterrupts(listeners, k, polling, pending) ==
  IF k > Len(listeners) THEN [currentlyPolling |-> polling, inflight |-> pending]
  ELSE LET i == listeners[k]
       IN  IF Poll(polling[i]).started
           THEN HandleInterrupts(listeners, k + 1, [polling EXCEPT ![i] = TRUE], Append(pending, Txn(i, "read", "irq", Null)))
           ELSE HandleInterrupts(listeners, k + 1, polling, pending)

\* a falling edge on the line of Gpio object g: its listeners are called
GpioInterrupt(g) ==
  /\ gpioObjs[g].exported
  /\ gpioObjs[g].listeners # <<>>
  /\ emitted' = <<>>
  /\ UNCHANGED <<icType, directions, inputPinBitmask, inverted, currentState, irqVars>>
  /\ LET r == HandleInterrupts(gpioObjs[g].listeners, 1, currentlyPolling, inflight)
     IN  /\ currentlyPolling' = r.currentlyPolling
         /\ inflight' = r.inflight
         /\ lastEvent' = Ev("interrupt", Null, "irq", gpioObjs[g].pin, FALSE, "returned", "", <<>>, 0)

(***************************************************************************)
(* PromiseQueue.  A started task's promise chain                           *)
(* item.promise().then(..).catch(..).finally(..) runs as one job per link  *)
(* after the task's promise has settled; calls of enqueue may come between *)
(* any two of these steps.                                                 *)
(***************************************************************************)
RECURSIVE DequeueNewestFirst(_, _, _)
DequeueNewestFirst(q, w, ts) ==
  IF w \/ q = <<>> THEN [queue |-> q, working |-> w, tasks |-> ts]
  ELSE LET item == q[Len(q)]
           rest == SubSeq(q, 1, Len(q) - 1)
       IN  IF ts[item].throws
           THEN DequeueNewestFirst(rest, FALSE, [ts EXCEPT ![item].stage = "done", ![item].err = TRUE, ![item].handle = "rejected"])
           ELSE [queue |-> rest, working |-> TRUE, tasks |-> [ts EXCEPT ![item].stage = "running"]]

RECURSIVE DequeueKeepsItem(_, _, _)
DequeueKeepsItem(q, w, ts) ==
  IF w \/ q = <<>> THEN [queue |-> q, working |-> w, tasks |-> ts]
  ELSE LET item == Head(q)
       IN  IF ts[item].stage # "queued" THEN DequeueKeepsItem(Tail(q), FALSE, ts)
           ELSE IF ts[item].throws
           THEN DequeueKeepsItem(Tail(q), FALSE, [ts EXCEPT ![item].stage = "done", ![item].err = TRUE, ![item].handle = "rejected"])
           ELSE [queue |-> q, working |-> TRUE, tasks |-> [ts EXCEPT ![item].stage = "running"]]

RECURSIVE DequeueStopsOnThrow(_, _, _)
DequeueStopsOnThrow(q, w, ts) ==
  IF w \/ q = <<>> THEN [queue |-> q, working |-> w, tasks |-> ts]
  ELSE LET item == Head(q)
       IN  IF ts[item].throws
           THEN [queue |-> Tail(q), working |-> TRUE, tasks |-> [ts EXCEPT ![item].stage = "done", ![item].err = TRUE, ![item].handle = "rejected"]]
           ELSE [queue |-> Tail(q), working |-> TRUE, tasks |-> [ts EXCEPT ![item].stage = "running"]]

\* dequeue() on queue q, working flag w and tasks ts: nothing while a task is active
\* or the queue is empty; else the first item is taken and its task function called.
\* If that throws, the item's handle is rejected and dequeue() runs again.
RECURSIVE Dequeue(_, _, _)
Dequeue(q, w, ts) ==
  IF w \/ q = <<>> THEN [queue |-> q, working |-> w, tasks |-> ts]
  ELSE LET item == Head(q)
       IN  IF ts[item].throws
           THEN Dequeue(Tail(q), FALSE, [ts EXCEPT ![item].stage = "done", ![item].err = TRUE, ![item].handle = "rejected"])
           ELSE [queue |-> Tail(q), working |-> TRUE, tasks |-> [ts EXCEPT ![item].stage = "running"]]

\* isEmpty()
IsEmpty == ~working /\ Len(queue) = 0

\* enqueue(promise) of the next task; throws: its function throws when it is called
Enqueue(throws) ==
  /\ \E t \in TaskIds : tasks[t].stage = "new"
  /\ LET t == CHOOSE n \in TaskIds : tasks[n].stage = "new" /\ \A m \in 1..(n - 1) : tasks[m].stage # "new"
         active == {u \in TaskIds : tasks[u].stage \in {"running", "settled", "then", "catch"}}
         during == IF active = {} THEN "idle" ELSE tasks[CHOOSE u \in active : TRUE].stage
         r == Dequeue(Append(queue, t), working, [tasks EXCEPT ![t] = [stage |-> "queued", throws |-> throws, err |-> FALSE, handle |-> "pending", during |-> during]])
     IN  /\ queue' = r.queue
         /\ working' = r.working
         /\ tasks' = r.tasks
  /\ UNCHANGED deviceVars

\* the promise that the function of task t returned is fulfilled (ok) or rejected
Settle(t, ok) ==
  /\ tasks[t].stage = "running"
  /\ tasks' = [tasks EXCEPT ![t].stage = "settled", ![t].err = ~ok]
  /\ UNCHANGED <<queue, working, deviceVars>>

\* the job of .then((value) => item.resolve(value)): a rejection passes through
ThenHandler(t) ==
  /\ tasks[t].stage = "settled"
  /\ tasks' = [tasks EXCEPT ![t].stage = "then", ![t].handle = IF tasks[t].err THEN @ ELSE "resolved"]
  /\ UNCHANGED <<queue, working, deviceVars>>

CatchHandlerNoReject(t) ==
  /\ tasks[t].stage = "then"
  /\ tasks' = [tasks EXCEPT ![t].stage = "catch"]
  /\ UNCHANGED <<queue, working, deviceVars>>

\* the job of .catch((err) => item.reject(err)): a fulfilment passes through
CatchHandler(t) ==
  /\ tasks[t].stage = "then"
  /\ tasks' = [tasks EXCEPT ![t].stage = "catch", ![t].handle = IF tasks[t].err THEN "rejected" ELSE @]
  /\ UNCHANGED <<queue, working, deviceVars>>

\* the job of .finally(() => { this.working = false; this.dequeue() })
FinallyHandler(t) ==
  /\ tasks[t].stage = "catch"
  /\ LET r == Dequeue(queue, FALSE, [tasks EXCEPT ![t].stage = "done"])
     IN  /\ queue' = r.queue
         /\ working' = r.working
         /\ tasks' = r.tasks
  /\ UNCHANGED deviceVars

(***************************************************************************)
(* Specifications.                                                         *)
(***************************************************************************)
\* the instance whose pins are driven in Spec
Dev == CHOOSE i \in Instances : \A j \in Instances : i <= j

Init == InitWith({Dev})

\* a call with an out-of-range pin is rejected before its other arguments are read
CallOutputPin == UNCHANGED queueVars /\ CanIssue /\ \E pin \in PinArgs(Dev) : IF PinOutOfRange(Dev, pin) THEN OutputPin(Dev, pin, FALSE, FALSE, FALSE) ELSE \E inv \in BOOLEAN, hasInitial \in BOOLEAN, initialValue \in BOOLEAN : (hasInitial \/ ~initialValue) /\ OutputPin(Dev, pin, inv, hasInitial, initialValue)
CallInputPin == UNCHANGED queueVars /\ CanIssue /\ \E pin \in PinArgs(Dev) : IF PinOutOfRange(Dev, pin) THEN InputPin(Dev, pin, FALSE) ELSE \E inv \in BOOLEAN : InputPin(Dev, pin, inv)
CallSetPin == UNCHANGED queueVars /\ CanIssue /\ \E pin \in PinArgs(Dev) : IF PinOutOfRange(Dev, pin) THEN SetPin(Dev, pin, FALSE, FALSE) ELSE \E hasValue \in BOOLEAN, value \in BOOLEAN : (hasValue \/ ~value) /\ SetPin(Dev, pin, hasValue, value)
CallSetAllPins == UNCHANGED queueVars /\ CanIssue /\ \E value \in BOOLEAN : SetAllPins(Dev, value)
CallDoPoll == UNCHANGED queueVars /\ CanIssue /\ DoPoll(Dev)
BusWriteDone == UNCHANGED queueVars /\ \E k \in 1..Len(inflight), err \in BOOLEAN : WriteCallback(k, err)
\* a read ends with an error, with too few bytes, or with a full buffer
BusReadDone ==
  UNCHANGED queueVars /\ \E k \in 1..Len(inflight) :
    LET type == icType[inflight[k].inst]
        anyBuffer == CHOOSE b \in ReadBuffers(type) : TRUE
    IN  \/ ReadCallback(k, TRUE, 0, anyBuffer)
        \/ ReadCallback(k, FALSE, WireLen(type) - 1, anyBuffer)
        \/ \E buffer \in ReadBuffers(type) : ReadCallback(k, FALSE, WireLen(type), buffer)

Next ==
  \/ CallOutputPin
  \/ CallInputPin
  \/ CallSetPin
  \/ CallSetAllPins
  \/ CallDoPoll
  \/ BusWriteDone
  \/ BusReadDone

Spec == Init /\ [][Next]_vars

\* back-to-back writes: pins are made outputs and set, MaxWrites writes at a time
OrderOutputPin == UNCHANGED queueVars /\ Len(inflight) < MaxWrites /\ \E pin \in 0..MaxPin, inv \in BOOLEAN, hasInitial \in BOOLEAN, initialValue \in BOOLEAN : (hasInitial \/ ~initialValue) /\ OutputPin(Dev, pin, inv, hasInitial, initialValue)
OrderSetPin == UNCHANGED queueVars /\ Len(inflight) < MaxWrites /\ \E pin \in 0..MaxPin, hasValue \in BOOLEAN, value \in BOOLEAN : (hasValue \/ ~value) /\ SetPin(Dev, pin, hasValue, value)
OrderSetAllPins == UNCHANGED queueVars /\ Len(inflight) < MaxWrites /\ \E value \in BOOLEAN : SetAllPins(Dev, value)

NextOrder ==
  \/ OrderOutputPin
  \/ OrderSetPin
  \/ OrderSetAllPins
  \/ BusWriteDone

SpecOrder == Init /\ [][NextOrder]_vars

\* enableInterrupt / disableInterrupt on every instance, interrupts and the polls they start
InitInterrupt == InitWith({})

CallEnableInterrupt == UNCHANGED queueVars /\ \E i \in Instances, line \in Lines : EnableInterrupt(i, line)
CallDisableInterrupt == UNCHANGED queueVars /\ \E i \in Instances : DisableInterrupt(i)
LineInterrupt == UNCHANGED queueVars /\ \E g \in GpioIds : GpioInterrupt(g)
\* no pin is an input here, so the levels read have no effect: a read delivers all
\* pins high, or fails
InterruptReadDone ==
  UNCHANGED queueVars /\ \E k \in 1..Len(inflight) :
    LET type == icType[inflight[k].inst]
    IN  \/ ReadCallback(k, TRUE, 0, WireBytes(type, 0))
        \/ ReadCallback(k, FALSE, WireLen(type) - 1, WireBytes(type, 0))
        \/ ReadCallback(k, FALSE, WireLen(type), WireBytes(type, Pow2(PinsOf(type)) - 1))

NextInterrupt ==
  \/ CallEnableInterrupt
  \/ CallDisableInterrupt
  \/ LineInterrupt
  \/ InterruptReadDone

SpecInterrupt == InitInterrupt /\ [][NextInterrupt]_vars

\* manual polls and interrupt-triggered polls of one instance whose lowest and
\* highest pin are made Input pins
PollEnableInterrupt == UNCHANGED queueVars /\ EnableInterrupt(Dev, CHOOSE line \in Lines : TRUE)
PollInputPin == UNCHANGED queueVars /\ CanIssue /\ \E pin \in EdgePins(Dev), inv \in BOOLEAN : InputPin(Dev, pin, inv)

NextPoll ==
  \/ PollEnableInterrupt
  \/ PollInputPin
  \/ CallDoPoll
  \/ LineInterrupt
  \/ BusWriteDone
  \/ BusReadDone

SpecPoll == Init /\ [][NextPoll]_vars

\* polls of SpecPoll together with writes: the lowest and the highest pin are made
\* Input or Output pins, Output pins are written by setPin and setAllPins
NotifyOutputPin == UNCHANGED queueVars /\ CanIssue /\ \E pin \in EdgePins(Dev), initialValue \in BOOLEAN : OutputPin(Dev, pin, FALSE, TRUE, initialValue)
NotifySetPin == UNCHANGED queueVars /\ CanIssue /\ \E pin \in EdgePins(Dev) : SetPin(Dev, pin, FALSE, FALSE)

NextNotify ==
  \/ PollEnableInterrupt
  \/ PollInputPin
  \/ NotifyOutputPin
  \/ NotifySetPin
  \/ CallSetAllPins
  \/ CallDoPoll
  \/ LineInterrupt
  \/ BusWriteDone
  \/ BusReadDone

SpecNotify == Init /\ [][NextNotify]_vars

\* construction with every kind of argument, and the lowest and the highest pin of
\* the instance made outputs, set and read back
AddressArgs == {-1, 0, 56, 255, 256}
TypeArgs == Types \cup {"PCF8591"}
InitialStateArgs == {[isBool |-> TRUE, b |-> v, n |-> 0] : v \in BOOLEAN} \cup {[isBool |-> FALSE, b |-> FALSE, n |-> v] : v \in {-1, 0, 1, 128, 255, 256, 32768, 65535, 65536}}
\* the argument lists tried: every address and type with the default initialState,
\* every initialState with a good address and each IC type, and a bad address
\* together with a bad initialState
ConstructorArgs ==
  {[address |-> a, initialState |-> DefaultInitialState, type |-> t] : a \in AddressArgs, t \in TypeArgs}
    \cup {[address |-> a, initialState |-> n, type |-> t] : a \in Addresses, n \in InitialStateArgs, t \in Types}
    \cup {[address |-> a, initialState |-> n, type |-> t] : a \in AddressArgs \ (0..255), n \in {x \in InitialStateArgs : ~x.isBool /\ x.n < 0}, t \in Types}

CallNew == UNCHANGED queueVars /\ \E args \in ConstructorArgs, syncErr \in BOOLEAN : New(Dev, args.address, args.initialState, args.type, syncErr)
CallGetPinValue == UNCHANGED queueVars /\ \E pin \in EdgePins(Dev) \cup {-1, Pins(Dev)} : GetPinValueCall(Dev, pin)
EdgeOutputPin == UNCHANGED queueVars /\ CanIssue /\ \E pin \in EdgePins(Dev), inv \in BOOLEAN, hasInitial \in BOOLEAN, initialValue \in BOOLEAN : (hasInitial \/ ~initialValue) /\ OutputPin(Dev, pin, inv, hasInitial, initialValue)
EdgeSetPin == UNCHANGED queueVars /\ CanIssue /\ \E pin \in EdgePins(Dev), hasValue \in BOOLEAN, value \in BOOLEAN : (hasValue \/ ~value) /\ SetPin(Dev, pin, hasValue, value)

NextConstruct ==
  \/ CallNew
  \/ CallGetPinValue
  \/ EdgeOutputPin
  \/ EdgeSetPin
  \/ BusWriteDone

SpecConstruct == Init /\ [][NextConstruct]_vars

\* tasks enqueued on one PromiseQueue, their promises settling either way
CallEnqueue == \E throws \in BOOLEAN : Enqueue(throws)
TaskSettles == \E t \in TaskIds, ok \in BOOLEAN : Settle(t, ok)
ThenJob == \E t \in TaskIds : ThenHandler(t)
CatchJob == \E t \in TaskIds : CatchHandler(t)
FinallyJob == \E t \in TaskIds : FinallyHandler(t)

NextQueue ==
  \/ CallEnqueue
  \/ TaskSettles
  \/ ThenJob
  \/ CatchJob
  \/ FinallyJob

\* a new PromiseQueue: nothing queued, not working
InitQueue == InitWith({})

SpecQueue == InitQueue /\ [][NextQueue]_vars

\* the promise of every started task settles at some time (the premise of the
\* liveness claims), and the event loop runs every promise job that is queued
SpecQueueLive == InitQueue /\ [][NextQueue]_vars /\ WF_vars(TaskSettles) /\ WF_vars(ThenJob) /\ WF_vars(CatchJob) /\ WF_vars(FinallyJob)

(***************************************************************************)
(* Properties.                                                             *)
(***************************************************************************)
\* the pending transactions of instance i of one kind
Pending(i, kind) == {k \in 1..Len(inflight) : inflight[k].inst = i /\ inflight[k].kind = kind}

\* the step just taken was a call of setPin, setAllPins or outputPin that issued its write
WriteCallPending(e) == e.ev = "call" /\ e.op \in {"setPin", "setAllPins", "outputPin"} /\ e.result = "pending"

\* C1 as stated: in every reachable state an instance has at most one bus
\* transaction (write or read) in flight.
C1_OneTransactionInFlight == \A i \in Instances : Cardinality(Pending(i, "write") \cup Pending(i, "read")) <= 1

\* C1 amended: in every reachable state an instance has at most one bus read (poll)
\* in flight, and it has one exactly while its polling flag is set; writes are
\* not serialized.
C1_OneReadInFlight == \A i \in Instances : Cardinality(Pending(i, "read")) = (IF currentlyPolling[i] THEN 1 ELSE 0)

\* a write and a read of one instance in flight together, the read issued last
C1_Witness == \E i \in Instances : Pending(i, "write") # {} /\ Pending(i, "read") # {} /\ lastEvent.op = "doPoll" /\ lastEvent.result = "pending"

\* C2 as stated: when the write of setPin, setAllPins or outputPin-with-initialValue
\* fails, currentState equals its value before the call.  Stated for a call whose
\* write is the only transaction in flight and fails in the very next step.
C2_FailedWriteDiscarded == [][(WriteCallPending(lastEvent) /\ Len(inflight) = 1 /\ lastEvent'.ev = "writeCb" /\ lastEvent'.result = "rejected") => currentState'[lastEvent.inst] = lastEvent.prev]_vars

\* C2 amended: the new state is stored in currentState when the call is made, before
\* the write completes (the pin of setPin / outputPin already reads the new value,
\* every Output pin that of setAllPins), and the callback of a write, failed or
\* not, leaves currentState as it is.
C2_StateKeptOnFailure ==
  [][/\ (WriteCallPending(lastEvent') /\ lastEvent'.op # "setAllPins") => (Bit(currentState'[lastEvent'.inst], lastEvent'.pin) # 0) = lastEvent'.value
     /\ (WriteCallPending(lastEvent') /\ lastEvent'.op = "setAllPins") => \A p \in 0..(Pins(lastEvent'.inst) - 1) : (Bit(currentState'[lastEvent'.inst], p) # 0) = (IF directions[lastEvent'.inst][p] = DIR_OUT THEN lastEvent'.value ELSE Bit(lastEvent'.prev, p) # 0)
     /\ lastEvent'.ev = "writeCb" => currentState' = currentState]_vars

\* a write has just failed as the only transaction, and the state differs from
\* the state the instance was constructed with
C2_Witness == lastEvent.ev = "writeCb" /\ lastEvent.op = "write" /\ lastEvent.result = "rejected" /\ inflight = <<>> /\ currentState[lastEvent.inst] \notin {0, Pow2(Pins(lastEvent.inst)) - 1}

\* C3 as stated: a poll requested while another poll of the instance is in flight
\* is not rejected.
C3_OverlappingPollQueued == ~(lastEvent.ev = "call" /\ lastEvent.op = "doPoll" /\ lastEvent.result = "rejected")

\* C4 as stated: a poll request is rejected only when four polls of the instance are
\* pending already.
C4_RejectedOnlyWhenFull == (lastEvent.op = "doPoll" /\ lastEvent.result = "rejected") => Cardinality(Pending(lastEvent.inst, "read")) >= 4

\* C5 as stated: writes submitted back-to-back complete in submission order: when the
\* promise of a write settles, no write of the instance submitted before it is pending.
C5_CompleteInSubmissionOrder == (lastEvent.ev = "writeCb" /\ lastEvent.result # "pending") => \A k \in Pending(lastEvent.inst, "write") : k >= lastEvent.idx

\* C5 amended: writes are issued to the bus in submission order, at the call; the
\* promise of a write settles in the step that delivers its own transport callback,
\* with that callback's outcome, whatever writes submitted earlier are still pending.
C5_CompleteInCallbackOrder ==
  [][/\ WriteCallPending(lastEvent') => (inflight' = Append(inflight, inflight'[Len(inflight')]) /\ inflight'[Len(inflight')].kind = "write")
     /\ \A k \in 1..Len(inflight) : \A err \in BOOLEAN : (inflight[k].op = "write" /\ WriteCallback(k, err)) => (lastEvent'.idx = k /\ lastEvent'.result = (IF err THEN "rejected" ELSE "resolved") /\ inflight' = RemoveAt(inflight, k))]_vars

\* of three writes pending together the one submitted last has completed first
C5_Witness == lastEvent.ev = "writeCb" /\ lastEvent.op = "write" /\ lastEvent.result = "resolved" /\ lastEvent.idx = 3 /\ Pending(lastEvent.inst, "write") = {1, 2}

\* the instances subscribed to line l, and the Gpio objects that hold line l
Subscribers(l) == {i \in Instances : gpioPin[i] = l}
Acquired(l) == {g \in GpioIds : gpioObjs[g].exported /\ gpioObjs[g].pin = l}

\* C6: a line is held by exactly one Gpio object, shared by all its subscribers, as
\* long as at least one instance is subscribed to it, and by none once the last
\* subscriber has disabled.
C6_LineAcquiredOnce == \A l \in Lines : Cardinality(Acquired(l)) = (IF Subscribers(l) = {} THEN 0 ELSE 1) /\ \A i \in Subscribers(l) : gpio[i] \in Acquired(l)

\* one of two instances sharing a line has just disabled, the line is still held
C6_Witness == lastEvent.op = "disableInterrupt" /\ lastEvent.pin \in Lines /\ Subscribers(lastEvent.pin) # {} /\ Acquired(lastEvent.pin) # {} /\ gpio[lastEvent.inst] = Null

\* C7: the registry holds a handle for a line iff an instance is subscribed to it;
\* the handle's use count is the number of subscribed instances (so at least 1);
\* its watchers are those instances, each once; an instance is a watcher of no
\* other Gpio, and it has a Gpio iff it has a line.
C7_RegistryCounts ==
  /\ \A l \in Lines : (allInstancesUsedGpios[l] # Null) <=> (Subscribers(l) # {})
  /\ \A l \in Lines : allInstancesUsedGpios[l] # Null =>
       LET h == gpioObjs[allInstancesUsedGpios[l]]
       IN  /\ h.pcf857xUseCount = Cardinality(Subscribers(l))
           /\ h.pcf857xUseCount >= 1
           /\ Len(h.listeners) = Cardinality(Subscribers(l))
           /\ {h.listeners[k] : k \in 1..Len(h.listeners)} = Subscribers(l)
  /\ \A i \in Instances : (gpio[i] = Null) <=> (gpioPin[i] = Null)
  /\ \A g \in GpioIds : \A k \in 1..Len(gpioObjs[g].listeners) : gpio[gpioObjs[g].listeners[k]] = g

\* a line shared by two instances, a moment after another enable or disable
C7_Witness == \E l \in Lines : Cardinality(Subscribers(l)) = 2 /\ gpioObjs[allInstancesUsedGpios[l]].pcf857xUseCount = 2 /\ lastEvent.op = "enableInterrupt" /\ lastEvent.result = "returned"

\* C8: enableInterrupt on an instance that has a subscription throws and changes
\* neither the instance, the registry, a use count nor a watcher list.
C8_DoubleEnableRejected == [][lastEvent'.op = "enableInterrupt" => \A i \in Instances : \A l \in Lines : (gpio[i] # Null /\ EnableInterrupt(i, l)) => (lastEvent'.result = "thrown" /\ UNCHANGED <<gpioPin, gpio, allInstancesUsedGpios, gpioObjs, engineVars, inflight>>)]_vars

\* enableInterrupt has just thrown for a line other than the one the instance holds
C8_Witness == lastEvent.op = "enableInterrupt" /\ lastEvent.result = "thrown" /\ gpioPin[lastEvent.inst] \in Lines /\ gpioPin[lastEvent.inst] # lastEvent.pin

\* C9: bit i of the input mask is set iff direction[i] is Input.
C9_InputMaskMatchesDirections == \A i \in Instances : \A p \in 0..(Pins(i) - 1) : (Bit(inputPinBitmask[i], p) = 1) <=> (directions[i][p] = DIR_IN)

\* a pin made an input is an output again while the inputPin call is still pending
\* (its write has failed or not completed), and another pin is an input
C9_Witness == \E k \in 1..Len(inflight) : \E q \in 0..MaxPin : inflight[k].op = "inputPin" /\ directions[inflight[k].inst][inflight[k].pin] = DIR_OUT /\ directions[inflight[k].inst][q] = DIR_IN /\ lastEvent.ev = "writeCb" /\ lastEvent.result = "rejected"

\* bit p of the state value that the bytes of a write carry
WireBit(bytes, p) == Bit(bytes[(p \div 8) + 1], p % 8)

\* C10: a write sends (currentState XOR invertedMask) OR inputMask, so the wire bit
\* of every pin that is an Input when the write is issued is 1.
C10_InputsWrittenHigh ==
  lastEvent.wire # <<>> =>
    /\ lastEvent.wire = WireBytes(icType[lastEvent.inst], BitOr(BitXor(currentState[lastEvent.inst], inverted[lastEvent.inst]), inputPinBitmask[lastEvent.inst]))
    /\ \A p \in 0..(Pins(lastEvent.inst) - 1) : directions[lastEvent.inst][p] = DIR_IN => WireBit(lastEvent.wire, p) = 1

\* inputPin has just issued its write for a pin whose state bit and inverted flag
\* are both set, so that only the input mask makes its wire bit 1
C10_Witness == lastEvent.op = "inputPin" /\ lastEvent.wire # <<>> /\ Bit(currentState[lastEvent.inst], lastEvent.pin) = 1 /\ Bit(inverted[lastEvent.inst], lastEvent.pin) = 1 /\ WireBit(lastEvent.wire, lastEvent.pin) = 1

\* C11: outputPin(pin, inverted) makes the pin an Output with that inversion; a
\* setPin(pin, value) on it makes getPinValue(pin) return value at once and still
\* after its write has succeeded, with either inversion, while the wire bit written
\* for the pin is value when the pin is not inverted and NOT value when it is.
C11_InversionInvisible ==
  [][/\ lastEvent'.op = "outputPin" => \A pin \in EdgePins(Dev), inv \in BOOLEAN, hasInitial \in BOOLEAN, initialValue \in BOOLEAN : OutputPin(Dev, pin, inv, hasInitial, initialValue) => ((Bit(inverted'[Dev], pin) = 1) = inv /\ directions'[Dev][pin] = DIR_OUT)
     /\ \A i \in Instances, pin \in EdgePins(Dev) : (lastEvent'.op = "setPin" /\ lastEvent'.result = "pending" /\ lastEvent'.inst = i /\ lastEvent'.pin = pin) =>
          /\ GetPinValue(i, pin)' = lastEvent'.value
          /\ WireBit(lastEvent'.wire, pin) = (IF lastEvent'.value # (Bit(inverted'[i], pin) = 1) THEN 1 ELSE 0)
     /\ \A i \in Instances, pin \in EdgePins(Dev) : (lastEvent.op = "setPin" /\ lastEvent.result = "pending" /\ lastEvent.inst = i /\ lastEvent.pin = pin /\ lastEvent'.ev = "writeCb" /\ lastEvent'.result = "resolved") => GetPinValue(i, pin)' = lastEvent.value]_vars

\* setPin(15, true) has just written wire bit 0 for the inverted highest pin of a
\* 16-pin device, and getPinValue(15) is true
C11_Witness == lastEvent.op = "setPin" /\ lastEvent.result = "pending" /\ lastEvent.value /\ lastEvent.pin = 15 /\ Bit(inverted[lastEvent.inst], 15) = 1 /\ WireBit(lastEvent.wire, 15) = 0 /\ GetPinValue(lastEvent.inst, 15)

\* the scenario of C12: outputPin(0, inverted = true, initialValue = false) has just
\* been called on an 8-pin device in the state that initialState = true gives it
ScenarioOutputPin == lastEvent.ev = "call" /\ lastEvent.op = "outputPin" /\ lastEvent.pin = 0 /\ ~lastEvent.value /\ lastEvent.result = "pending" /\ lastEvent.prev = 255 /\ icType[lastEvent.inst] = "PCF8574" /\ inverted[lastEvent.inst] = 1 /\ inputPinBitmask[lastEvent.inst] = 0

\* C12 as stated: the write of outputPin(0, inverted = true, initialValue = false) on
\* the fresh 8-pin device carries the byte 0xFE.
C12_ScenarioWrites0xFE == ScenarioOutputPin => lastEvent.wire = <<254>>

\* C12 amended: constructing the 8-pin device with initialState = true writes 0xFF;
\* outputPin(0, inverted = true, initialValue = false) then stores 0xFE in
\* currentState and writes 0xFE XOR 0x01 = 0xFF.
C12_ScenarioWrites0xFF ==
  /\ Constructor(56, [isBool |-> TRUE, b |-> TRUE, n |-> 0], "PCF8574").written = <<255>>
  /\ ScenarioOutputPin => (lastEvent.wire = <<255>> /\ currentState[lastEvent.inst] = 254 /\ ~GetPinValue(lastEvent.inst, 0))

\* the call of the scenario has been made as the first call on the device
C12_Witness == ScenarioOutputPin /\ Len(inflight) = 1 /\ \A p \in 1..7 : directions[lastEvent.inst][p] = DIR_UNDEF

\* the inversion-corrected value of the bytes a read delivered to instance i
Corrected(i, buffer) == BitXor(ReadStateOf(icType[i], buffer), inverted[i])

\* the Input pins of i on which the corrected read of buffer differs from currentState
Differing(i, buffer) == {p \in 0..(Pins(i) - 1) : directions[i][p] = DIR_IN /\ Bit(currentState[i], p) # Bit(Corrected(i, buffer), p)}

\* C13: a successful poll of doPoll or of an interrupt emits exactly one event
\* {pin, value} for each Input pin whose corrected read bit differs from currentState,
\* value being the read bit, and none for any other pin; it sets those bits of
\* currentState to the read values and keeps every other bit; when no Input pin
\* differs nothing is emitted and currentState is unchanged.
C13_PollEmitsChanges ==
  [][(lastEvent'.ev = "readCb" /\ lastEvent'.result = "resolved" /\ lastEvent'.op # "inputPin") =>
       \A i \in Instances : lastEvent'.inst = i =>
         /\ Len(emitted') = Cardinality(Differing(i, lastEvent'.read))
         /\ {emitted'[k] : k \in 1..Len(emitted')} = {[pin |-> p, value |-> Bit(Corrected(i, lastEvent'.read), p) = 1] : p \in Differing(i, lastEvent'.read)}
         /\ \A p \in 0..(Pins(i) - 1) : Bit(currentState'[i], p) = (IF p \in Differing(i, lastEvent'.read) THEN Bit(Corrected(i, lastEvent'.read), p) ELSE Bit(currentState[i], p))
         /\ Differing(i, lastEvent'.read) = {} => (emitted' = <<>> /\ currentState' = currentState)]_vars

\* a doPoll has just found two Input pins changed, one of them inverted, and emitted
\* one event for each
C13_Witness == lastEvent.ev = "readCb" /\ lastEvent.result = "resolved" /\ lastEvent.op = "doPoll" /\ Len(emitted) = 2 /\ emitted[1].pin # emitted[2].pin /\ Bit(inverted[lastEvent.inst], emitted[1].pin) = 1 /\ Bit(inverted[lastEvent.inst], emitted[2].pin) = 0

\* C14: the completion of a poll's read, whatever bytes it delivers, changes the
\* currentState bit of no pin whose direction is then Output or Undefined and emits
\* no event for such a pin; so the bit a setPin stored while the read was in flight
\* is kept.
C14_PollKeepsOtherPins ==
  [][lastEvent'.ev = "readCb" =>
       \A i \in Instances : lastEvent'.inst = i =>
         \A p \in 0..(Pins(i) - 1) : directions[i][p] # DIR_IN =>
           /\ Bit(currentState'[i], p) = Bit(currentState[i], p)
           /\ \A k \in 1..Len(emitted') : emitted'[k].pin # p]_vars

\* a read has just completed with an event for an Input pin, while an Output pin
\* whose write is still in flight and an Undefined pin keep state bits that differ
\* from the corrected bits read for them
C14_Witness ==
  /\ lastEvent.ev = "readCb" /\ lastEvent.result = "resolved" /\ emitted # <<>>
  /\ Pending(lastEvent.inst, "write") # {}
  /\ \E p \in 0..MaxPin : directions[lastEvent.inst][p] = DIR_OUT /\ Bit(currentState[lastEvent.inst], p) # Bit(Corrected(lastEvent.inst, lastEvent.read), p)
  /\ \E p \in 0..(Pins(lastEvent.inst) - 1) : directions[lastEvent.inst][p] = DIR_UNDEF /\ Bit(currentState[lastEvent.inst], p) # Bit(Corrected(lastEvent.inst, lastEvent.read), p)

\* the k-th pending transaction is a read that fails in this step: with an error,
\* or with fewer bytes than asked for
ReadFails(k) ==
  LET type == icType[inflight[k].inst]
      anyBuffer == CHOOSE b \in ReadBuffers(type) : TRUE
  IN  ReadCallback(k, TRUE, 0, anyBuffer) \/ ReadCallback(k, FALSE, WireLen(type) - 1, anyBuffer)

\* C15: when the read of a poll fails (error or wrong byte count) currentState, the
\* masks and the directions are unchanged and nothing is emitted; the promise of a
\* manual poll rejects, the failure of an interrupt-triggered poll is swallowed; and
\* an interrupt that arrives while the instance is polling starts no read, changes
\* nothing of the instance and surfaces nothing.
C15_FailedPollChangesNothing ==
  [][/\ lastEvent'.ev = "readCb" =>
          \A k \in 1..Len(inflight) : ReadFails(k) =>
            /\ UNCHANGED <<currentState, inverted, inputPinBitmask, directions>>
            /\ emitted' = <<>>
            /\ lastEvent'.result = (IF inflight[k].op = "irq" THEN "swallowed" ELSE "rejected")
     /\ lastEvent'.ev = "interrupt" =>
          /\ UNCHANGED <<currentState, inverted, inputPinBitmask, directions>>
          /\ emitted' = <<>>
          /\ lastEvent'.result = "returned"
          /\ \A i \in Instances : currentlyPolling[i] => (currentlyPolling'[i] /\ Cardinality(Pending(i, "read"))' = Cardinality(Pending(i, "read")))]_vars

\* the read of an interrupt-triggered poll has just failed on an instance with an
\* Input pin, not inverted, whose state bit is 1
C15_Witness == lastEvent.ev = "readCb" /\ lastEvent.op = "irq" /\ lastEvent.result = "swallowed" /\ emitted = <<>> /\ \E p \in EdgePins(lastEvent.inst) : directions[lastEvent.inst][p] = DIR_IN /\ Bit(inverted[lastEvent.inst], p) = 0 /\ Bit(currentState[lastEvent.inst], p) = 1

\* C16: setPin on an in-range pin whose direction is Input or Undefined rejects
\* with 'Pin is not defined as output', issues no bus write and changes nothing.
C16_SetPinNeedsOutput ==
  [][\A i \in Instances, pin \in 0..MaxPin : (lastEvent'.ev = "call" /\ lastEvent'.op = "setPin" /\ lastEvent'.inst = i /\ lastEvent'.pin = pin /\ directions[i][pin] # DIR_OUT) =>
       /\ lastEvent'.result = "rejected"
       /\ lastEvent'.reason = "Pin is not defined as output"
       /\ lastEvent'.wire = <<>>
       /\ UNCHANGED <<engineVars, irqVars, inflight>>]_vars

\* setPin has just been rejected for an Input pin while another pin is an Output
C16_Witness == lastEvent.op = "setPin" /\ lastEvent.result = "rejected" /\ lastEvent.pin \in 0..MaxPin /\ directions[lastEvent.inst][lastEvent.pin] = DIR_IN /\ \E q \in 0..MaxPin : directions[lastEvent.inst][q] = DIR_OUT

\* C17: outputPin, inputPin and setPin called with a pin below 0 or above
\* pinCount - 1 reject with 'Pin out of range', issue no bus transaction and change
\* neither currentState, the masks nor any direction.
C17_PinRangeChecked ==
  [][\A i \in Instances : (lastEvent'.ev = "call" /\ lastEvent'.op \in {"outputPin", "inputPin", "setPin"} /\ lastEvent'.inst = i /\ (lastEvent'.pin < 0 \/ lastEvent'.pin >= PinsOf(icType[i]))) =>
       /\ lastEvent'.result = "rejected"
       /\ lastEvent'.reason = "Pin out of range"
       /\ lastEvent'.wire = <<>>
       /\ UNCHANGED <<engineVars, irqVars, inflight>>]_vars

\* inputPin(8) has just been rejected on an 8-pin device that has an Input pin and a
\* transaction in flight
C17_Witness == lastEvent.op = "inputPin" /\ lastEvent.result = "rejected" /\ lastEvent.pin = 8 /\ icType[lastEvent.inst] = "PCF8574" /\ inflight # <<>> /\ inputPinBitmask[lastEvent.inst] # 0

\* C18: getPinValue(pin) returns bit pin of currentState for an in-range pin and
\* false for an out-of-range pin, changes no state and issues no bus transaction;
\* a second call right after it returns the same value.
C18_GetPinValuePure ==
  [][lastEvent'.op = "getPinValue" =>
       /\ \A pin \in EdgePins(Dev) \cup {-1, Pins(Dev)} : GetPinValueCall(Dev, pin) =>
            /\ lastEvent'.value = (pin >= 0 /\ pin < Pins(Dev) /\ Bit(currentState[Dev], pin) = 1)
            /\ lastEvent'.wire = <<>>
            /\ emitted' = <<>>
            /\ UNCHANGED <<engineVars, irqVars, inflight>>
       /\ (lastEvent.op = "getPinValue" /\ lastEvent.inst = lastEvent'.inst /\ lastEvent.pin = lastEvent'.pin) => lastEvent'.value = lastEvent.value]_vars

\* getPinValue(15) has just returned true for an inverted Output pin (electrically
\* low on the wire) of a 16-pin device while a write is in flight
C18_Witness == lastEvent.op = "getPinValue" /\ lastEvent.pin = 15 /\ lastEvent.value /\ Bit(inverted[lastEvent.inst], 15) = 1 /\ directions[lastEvent.inst][15] = DIR_OUT /\ inflight # <<>>

\* the bitmask that initialState stands for on an IC of the type, and whether it fits
BitmaskOf(initialState, type) == IF initialState.isBool THEN (IF initialState.b THEN Pow2(PinsOf(type)) - 1 ELSE 0) ELSE initialState.n
Fits(initialState, type) == BitmaskOf(initialState, type) \in 0..(Pow2(PinsOf(type)) - 1)

\* C19: construction with a bitmask B that fits in pinCount bits (true standing for
\* 2^pinCount - 1, false for 0) makes one synchronous bus write of the bytes of B, low
\* byte first, and leaves an instance whose getPinValue(p) is bit p of B for every
\* pin, whose directions are all Undefined and whose masks are both zero.
C19_ConstructionRoundTrip ==
  [][lastEvent'.op = "constructor" =>
       \A args \in ConstructorArgs : LET address == args.address  initialState == args.initialState  type == args.type IN
         (address \in 0..255 /\ type \in Types /\ Fits(initialState, type) /\ New(Dev, address, initialState, type, FALSE)) =>
           /\ lastEvent'.result = "returned"
           /\ lastEvent'.wire = (IF PinsOf(type) = 8 THEN <<BitmaskOf(initialState, type)>> ELSE <<BitmaskOf(initialState, type) % 256, BitmaskOf(initialState, type) \div 256>>)
           /\ inflight' = inflight
           /\ \A p \in 0..(PinsOf(type) - 1) : GetPinValue(Dev, p)' = (Bit(BitmaskOf(initialState, type), p) = 1)
           /\ DOMAIN directions'[Dev] = 0..(PinsOf(type) - 1)
           /\ \A p \in 0..(PinsOf(type) - 1) : directions'[Dev][p] = DIR_UNDEF
           /\ inverted'[Dev] = 0
           /\ inputPinBitmask'[Dev] = 0]_vars

\* a 16-pin instance has just been constructed with the bitmask 32768: the bytes
\* 0x00 0x80 were written, pin 15 reads true and pin 0 false
C19_Witness == lastEvent.op = "constructor" /\ lastEvent.result = "returned" /\ lastEvent.wire = <<0, 128>> /\ GetPinValue(Dev, 15) /\ ~GetPinValue(Dev, 0) /\ directions[Dev][15] = DIR_UNDEF

\* C20: construction with an address outside 0..255, or with a numeric initialState
\* below 0 or above 2^pinCount - 1, throws before any bus write: nothing is written
\* and no instance results (the caller's variable keeps what it held).
C20_BadArgumentsRejected ==
  [][lastEvent'.op = "constructor" =>
       \A args \in ConstructorArgs, syncErr \in BOOLEAN : LET address == args.address  initialState == args.initialState  type == args.type IN
         (type \in Types /\ (address < 0 \/ address > 255 \/ (~initialState.isBool /\ (initialState.n < 0 \/ initialState.n > Pow2(PinsOf(type)) - 1))) /\ New(Dev, address, initialState, type, syncErr)) =>
           /\ lastEvent'.result = "thrown"
           /\ lastEvent'.reason \in {"Address out of range", "InitialState bitmask out of range"}
           /\ lastEvent'.wire = <<>>
           /\ UNCHANGED <<engineVars, irqVars, inflight>>]_vars

\* the constructor has just thrown for its initialState; the instance made before,
\* with an Output pin, is still what the caller holds
C20_Witness == lastEvent.op = "constructor" /\ lastEvent.result = "thrown" /\ lastEvent.reason = "InitialState bitmask out of range" /\ lastEvent.wire = <<>> /\ \E p \in EdgePins(Dev) : directions[Dev][p] = DIR_OUT

\* the bytes a full-state write of instance i carries for the values given
WireOf(i, state, inv, inMask) == WireBytes(icType[i], BitOr(BitXor(state, inv), inMask))

\* C21: setAllPins(value) issues a single write; in the state it computes every bit of
\* an Output pin equals value and every bit of an Input or Undefined pin equals its
\* currentState bit before the call; the write carries that state.
C21_SetAllPinsFrame ==
  [][(lastEvent'.ev = "call" /\ lastEvent'.op = "setAllPins") =>
       /\ inflight' = Append(inflight, Txn(lastEvent'.inst, "write", "write", Null))
       /\ lastEvent'.result = "pending"
       /\ lastEvent'.wire = WireOf(lastEvent'.inst, currentState'[lastEvent'.inst], inverted[lastEvent'.inst], inputPinBitmask[lastEvent'.inst])
       /\ \A p \in 0..(Pins(lastEvent'.inst) - 1) : (Bit(currentState'[lastEvent'.inst], p) # 0) = (IF directions[lastEvent'.inst][p] = DIR_OUT THEN lastEvent'.value ELSE Bit(currentState[lastEvent'.inst], p) # 0)
       /\ \A j \in Instances \ {lastEvent'.inst} : currentState'[j] = currentState[j]]_vars

\* setAllPins(false) has just been called with an Output pin, an Input pin and
\* Undefined pins that are high, and it changed the state
C21_Witness == lastEvent.ev = "call" /\ lastEvent.op = "setAllPins" /\ ~lastEvent.value /\ currentState[lastEvent.inst] # lastEvent.prev /\ (\E p, q \in 0..MaxPin : directions[lastEvent.inst][p] = DIR_OUT /\ directions[lastEvent.inst][q] = DIR_IN /\ Bit(currentState[lastEvent.inst], q) = 1) /\ Bit(currentState[lastEvent.inst], Pins(lastEvent.inst) - 1) = 1

\* C22: setPin(pin) with the value omitted on an Output pin writes the logical NOT of
\* the pin's current bit and leaves every other bit of the state unchanged; a second
\* toggle of the pin restores the state the first one found.
C22_ToggleInvolution ==
  [][\A pin \in 0..MaxPin :
       (lastEvent'.op = "setPin" /\ lastEvent'.pin = pin /\ directions[Dev][pin] = DIR_OUT /\ SetPin(Dev, pin, FALSE, FALSE)) =>
         /\ lastEvent'.result = "pending"
         /\ lastEvent'.value = (Bit(currentState[Dev], pin) = 0)
         /\ \A p \in 0..(Pins(Dev) - 1) : Bit(currentState'[Dev], p) = (IF p = pin THEN 1 - Bit(currentState[Dev], p) ELSE Bit(currentState[Dev], p))
         /\ lastEvent'.wire = WireOf(Dev, currentState'[Dev], inverted[Dev], inputPinBitmask[Dev])
         /\ SetPinInternal(currentState'[Dev], pin, Bit(currentState'[Dev], pin) = 0) = currentState[Dev]
         /\ (lastEvent.op = "setPin" /\ lastEvent.result = "pending" /\ lastEvent.pin = pin /\ lastEvent.value = (Bit(lastEvent.prev, pin) = 0)) => currentState'[Dev] = lastEvent.prev]_vars

\* an Output pin has been toggled twice in a row, both writes are pending, and the
\* state is again the one before the first toggle
C22_Witness == lastEvent.ev = "call" /\ lastEvent.op = "setPin" /\ lastEvent.result = "pending" /\ Len(inflight) = 2 /\ lastEvent.value = (Bit(lastEvent.prev, lastEvent.pin) = 0) /\ Bit(inverted[lastEvent.inst], lastEvent.pin) = 1 /\ currentState[lastEvent.inst] = SetStatePin(lastEvent.prev, lastEvent.pin, lastEvent.value) /\ SetStatePin(lastEvent.prev, lastEvent.pin, lastEvent.value) # lastEvent.prev

\* C23: outputPin(pin, inverted) without initialValue issues no bus write, resolves at
\* once and leaves currentState unchanged; only bit pin of the inverted mask, bit pin
\* of the input mask and the direction of pin change.
C23_OutputPinNoWrite ==
  [][\A pin \in 0..MaxPin, inv \in BOOLEAN :
       (lastEvent'.op = "outputPin" /\ lastEvent'.pin = pin /\ OutputPin(Dev, pin, inv, FALSE, FALSE)) =>
         /\ lastEvent'.result = "resolved"
         /\ lastEvent'.wire = <<>>
         /\ inflight' = inflight
         /\ currentState' = currentState
         /\ UNCHANGED <<icType, currentlyPolling, irqVars>>
         /\ \A j \in Instances \ {Dev} : inverted'[j] = inverted[j] /\ inputPinBitmask'[j] = inputPinBitmask[j] /\ directions'[j] = directions[j]
         /\ \A p \in 0..(Pins(Dev) - 1) :
              /\ Bit(inverted'[Dev], p) = (IF p = pin THEN (IF inv THEN 1 ELSE 0) ELSE Bit(inverted[Dev], p))
              /\ Bit(inputPinBitmask'[Dev], p) = (IF p = pin THEN 0 ELSE Bit(inputPinBitmask[Dev], p))
              /\ directions'[Dev][p] = (IF p = pin THEN DIR_OUT ELSE directions[Dev][p])]_vars

\* outputPin without initialValue has just been called while a transaction was
\* pending and another pin is an Input pin
C23_Witness == lastEvent.ev = "call" /\ lastEvent.op = "outputPin" /\ lastEvent.result = "resolved" /\ inflight # <<>> /\ directions[lastEvent.inst][lastEvent.pin] = DIR_OUT /\ Bit(inverted[lastEvent.inst], lastEvent.pin) = 0 /\ Bit(inputPinBitmask[lastEvent.inst], lastEvent.pin) = 0 /\ (\E q \in 0..MaxPin : directions[lastEvent.inst][q] = DIR_IN)

\* the bytes of the full-state write that setPin(q, v) would issue now on instance i
NextWrite(i, q, v) == SetNewState(icType[i], currentState[i], inverted[i], inputPinBitmask[i], TRUE, SetPinInternal(currentState[i], q, v)).wire

\* outputPin(pin, inv) without initialValue is called in this step, right after a
\* call that issued a full-state write (lastEvent.wire holds the bytes it sent)
OutputPinAfterWrite(pin, inv) == lastEvent'.op = "outputPin" /\ lastEvent'.pin = pin /\ lastEvent.ev = "call" /\ lastEvent.inst = Dev /\ lastEvent.wire # <<>> /\ OutputPin(Dev, pin, inv, FALSE, FALSE)

\* C24 as stated: after outputPin(pin, inverted) without initialValue, the next
\* full-state write triggered by an operation on another pin sends for pin the wire
\* bit most recently sent for it before the call, for inverted = false and = true.
C24_WireLevelUntouched ==
  [][\A pin \in 0..MaxPin, inv \in BOOLEAN :
       OutputPinAfterWrite(pin, inv) =>
         \A q \in (0..MaxPin) \ {pin}, v \in BOOLEAN : WireBit(NextWrite(Dev, q, v)', pin) = WireBit(lastEvent.wire, pin)]_vars

\* C24 amended: outputPin(pin, inverted) without initialValue leaves the pin's
\* currentState bit (its logical value) untouched; the next full-state write sends
\* for pin that bit XOR inverted, which is the wire bit most recently sent only if
\* the pin was not an Input and inverted is the flag the pin already had, or the pin
\* was an Input (sent high) and its bit XOR inverted is 1.
C24_LogicalValueUntouched ==
  [][\A pin \in 0..MaxPin, inv \in BOOLEAN :
       OutputPinAfterWrite(pin, inv) =>
         /\ currentState' = currentState
         /\ \A q \in (0..MaxPin) \ {pin}, v \in BOOLEAN :
              /\ WireBit(NextWrite(Dev, q, v)', pin) = (IF (Bit(currentState[Dev], pin) = 1) # inv THEN 1 ELSE 0)
              /\ (WireBit(NextWrite(Dev, q, v)', pin) = WireBit(lastEvent.wire, pin)) <=> (IF Bit(inputPinBitmask[Dev], pin) = 1 THEN (Bit(currentState[Dev], pin) = 1) # inv ELSE inv = (Bit(inverted[Dev], pin) = 1))]_vars

\* outputPin(pin, true) without initialValue has just been called on a pin whose
\* logical value is true, with one write pending and another pin an Output pin: the
\* next write sends this pin low
C24_Witness == lastEvent.ev = "call" /\ lastEvent.op = "outputPin" /\ lastEvent.result = "resolved" /\ Len(inflight) = 1 /\ inflight[1].kind = "write" /\ Bit(inverted[lastEvent.inst], lastEvent.pin) = 1 /\ Bit(currentState[lastEvent.inst], lastEvent.pin) = 1 /\ (\E q \in (0..MaxPin) \ {lastEvent.pin} : directions[lastEvent.inst][q] = DIR_OUT /\ WireBit(NextWrite(lastEvent.inst, q, TRUE), lastEvent.pin) = 0)

\* C25: when the bus write of inputPin(pin, inverted) fails, the call rejects with
\* that failure and no read is issued for it; the pin stays marked Input with the
\* requested inverted flag: the call set direction, input-mask bit and inverted bit,
\* and the failure changes none of them (nor currentState or the polling flag).
C25_FailedInputPinWrite ==
  [][/\ \A pin \in EdgePins(Dev), inv \in BOOLEAN :
          (lastEvent'.ev = "call" /\ lastEvent'.op = "inputPin" /\ lastEvent'.pin = pin /\ InputPin(Dev, pin, inv)) =>
            (directions'[Dev][pin] = DIR_IN /\ Bit(inputPinBitmask'[Dev], pin) = 1 /\ Bit(inverted'[Dev], pin) = (IF inv THEN 1 ELSE 0))
     /\ \A k \in 1..Len(inflight) :
          (lastEvent'.ev = "writeCb" /\ lastEvent'.idx = k /\ inflight[k].op = "inputPin" /\ WriteCallback(k, TRUE)) =>
            /\ lastEvent'.result = "rejected" /\ lastEvent'.reason = "bus error"
            /\ inflight' = RemoveAt(inflight, k)
            /\ \A i \in Instances : Cardinality(Pending(i, "read")') = Cardinality(Pending(i, "read"))
            /\ UNCHANGED <<directions, inputPinBitmask, inverted, currentState, currentlyPolling>>
            /\ directions'[inflight[k].inst][inflight[k].pin] = DIR_IN
            /\ Bit(inputPinBitmask'[inflight[k].inst], inflight[k].pin) = 1]_vars

\* the write of inputPin(pin, true) has just failed with no poll in flight: no read
\* is pending, the pin is an inverted Input pin
C25_Witness == lastEvent.ev = "writeCb" /\ lastEvent.op = "inputPin" /\ lastEvent.result = "rejected" /\ lastEvent.reason = "bus error" /\ inflight = <<>> /\ ~currentlyPolling[lastEvent.inst] /\ directions[lastEvent.inst][lastEvent.pin] = DIR_IN /\ Bit(inputPinBitmask[lastEvent.inst], lastEvent.pin) = 1 /\ Bit(inverted[lastEvent.inst], lastEvent.pin) = 1

\* C26: the poll that inputPin(pin, ...) performs after its write emits no event for
\* pin, yet sets the currentState bit of pin to the inversion-corrected read bit; for
\* every other Input pin whose corrected read bit differs from currentState it emits
\* exactly one event {pin, value} and sets the bit, as every poll does.
C26_BaselinePollSilent ==
  [][(lastEvent'.ev = "readCb" /\ lastEvent'.result = "resolved" /\ lastEvent'.op = "inputPin") =>
       \A i \in Instances : lastEvent'.inst = i =>
         /\ \A k \in 1..Len(emitted') : emitted'[k].pin # lastEvent'.pin
         /\ directions[i][lastEvent'.pin] = DIR_IN => Bit(currentState'[i], lastEvent'.pin) = Bit(Corrected(i, lastEvent'.read), lastEvent'.pin)
         /\ Len(emitted') = Cardinality(Differing(i, lastEvent'.read) \ {lastEvent'.pin})
         /\ {emitted'[k] : k \in 1..Len(emitted')} = {[pin |-> p, value |-> Bit(Corrected(i, lastEvent'.read), p) = 1] : p \in Differing(i, lastEvent'.read) \ {lastEvent'.pin}}
         /\ \A p \in 0..(Pins(i) - 1) : Bit(currentState'[i], p) = (IF p \in Differing(i, lastEvent'.read) THEN Bit(Corrected(i, lastEvent'.read), p) ELSE Bit(currentState[i], p))]_vars

\* the poll of inputPin has just delivered a read whose corrected bit for its
\* inverted pin is 1, now the pin's currentState bit, and emitted the change of
\* the other Input pin only
C26_Witness == lastEvent.ev = "readCb" /\ lastEvent.result = "resolved" /\ lastEvent.op = "inputPin" /\ Len(emitted) = 1 /\ emitted[1].pin # lastEvent.pin /\ directions[lastEvent.inst][emitted[1].pin] = DIR_IN /\ Bit(inverted[lastEvent.inst], lastEvent.pin) = 1 /\ Bit(ReadStateOf(icType[lastEvent.inst], lastEvent.read), lastEvent.pin) = 0 /\ Bit(currentState[lastEvent.inst], lastEvent.pin) = 1

\* C27 as stated: inputPin rejects only when a bus operation fails; when its write
\* succeeds it goes on to its poll (and resolves when the read succeeds), also when
\* another poll of the instance is in flight at the moment the write completes.
C27_InputPinRejectsOnlyOnBusFailure ==
  [][\A k \in 1..Len(inflight) :
       (lastEvent'.ev = "writeCb" /\ lastEvent'.idx = k /\ inflight[k].op = "inputPin" /\ WriteCallback(k, FALSE)) =>
         (lastEvent'.result # "rejected" /\ \E j \in 1..Len(inflight') : inflight'[j] = Txn(inflight[k].inst, "read", "inputPin", inflight[k].pin))]_vars

\* task t has been started (its function called); it has settled (its promise
\* fulfilled or rejected, or its function threw); it runs (started, not settled);
\* it is active (started, its finally-handler has not run)
Started(t) == tasks[t].stage \notin {"new", "queued"}
Settled(t) == tasks[t].stage \in {"settled", "then", "catch", "done"}
Running(t) == tasks[t].stage = "running"
Active(t) == tasks[t].stage \in {"running", "settled", "then", "catch"}

\* C28: the PromiseQueue runs at most one task at a time and starts tasks in the
\* order of their enqueue calls: a task has been started only if every task enqueued
\* before it has been started and has settled; the tasks waiting are in queue in
\* enqueue order.
C28_OneTaskAtATimeFifo ==
  /\ Cardinality({t \in TaskIds : Active(t)}) <= 1
  /\ \A t \in TaskIds : Started(t) => \A u \in 1..(t - 1) : Started(u) /\ Settled(u)
  /\ \A k \in 1..Len(queue) : tasks[queue[k]].stage = "queued" /\ \A j \in 1..(k - 1) : queue[j] < queue[k]
  /\ \A t \in TaskIds : tasks[t].stage = "queued" => \E k \in 1..Len(queue) : queue[k] = t

\* the second task runs after the first one, which failed, is done, while the
\* last one waits
C28_Witness == MaxTasks >= 3 /\ tasks[1].stage = "done" /\ tasks[1].err /\ ~tasks[1].throws /\ Running(2) /\ working /\ queue = <<3>>

\* C29: a task that fails (its promise rejects, or its function throws) does not
\* halt the queue: a handle is rejected only if its own task failed, and the handle
\* of a failed task that is done is rejected; when a failed task is done the working
\* flag is cleared and the next task waiting is started, so either a task runs or
\* nothing waits and the flag is clear; tasks never wait while no task is active.
C29_FailureDoesNotHalt ==
  [][/\ \A t \in TaskIds : (tasks'[t].handle = "rejected" => tasks'[t].err) /\ ((tasks'[t].stage = "done" /\ tasks'[t].err) => tasks'[t].handle = "rejected")
     /\ queue' # <<>> => (working' /\ \E u \in TaskIds : Active(u)')
     /\ (\E t \in TaskIds : tasks[t].stage # "done" /\ tasks'[t].stage = "done" /\ tasks'[t].err) =>
          /\ (\E u \in TaskIds : Running(u)') => working'
          /\ (\A u \in TaskIds : ~Running(u)') => (~working' /\ queue' = <<>>)
          /\ \A u \in TaskIds : tasks[u].stage = "queued" => (Started(u)' \/ \E v \in 1..(u - 1) : Running(v)' /\ ~Started(v))]_vars

\* after a task whose promise was rejected, and one that threw, the last task runs
C29_Witness == MaxTasks >= 3 /\ tasks[1].stage = "done" /\ tasks[1].err /\ ~tasks[1].throws /\ tasks[1].handle = "rejected" /\ tasks[2].stage = "done" /\ tasks[2].throws /\ tasks[2].handle = "rejected" /\ Running(3) /\ tasks[3].handle = "pending" /\ working

\* C30 as stated: in every reachable state isEmpty() returns true iff no task is
\* running and no task is waiting, also between the settlement of a task and the
\* start of the next one.
C30_IsEmptyIffIdle == IsEmpty <=> ((\A t \in TaskIds : ~Running(t)) /\ (\A t \in TaskIds : tasks[t].stage # "queued"))

\* how far a task has got, as a number
StageRank(stage) == CASE stage = "new" -> 0 [] stage = "queued" -> 1 [] stage = "running" -> 2 [] stage = "settled" -> 3 [] stage = "then" -> 4 [] stage = "catch" -> 5 [] OTHER -> 6

\* C31: if every task's promise settles, every task enqueued is started and its
\* handle settles with the task's own outcome (rejected iff the task failed); a task
\* is started once (its stages only advance) and its handle settles once (a settled
\* handle never changes); a task enqueued on an idle queue is started in the
\* enqueue call; this holds for tasks enqueued while a task runs or after the
\* handle of the task before has settled as well.
C31_EveryTaskSettles ==
  /\ \A t \in TaskIds : (tasks[t].handle = "pending") ~> (tasks[t].stage = "done" /\ tasks[t].handle = (IF tasks[t].err THEN "rejected" ELSE "resolved"))
  /\ [][\A t \in TaskIds :
          /\ StageRank(tasks'[t].stage) >= StageRank(tasks[t].stage)
          /\ tasks[t].handle \in {"resolved", "rejected"} => tasks'[t].handle = tasks[t].handle
          /\ tasks'[t].handle = "resolved" => (~tasks'[t].err /\ ~tasks'[t].throws)
          /\ tasks'[t].handle = "rejected" => tasks'[t].err
          /\ (tasks[t].stage = "new" /\ tasks'[t].stage # "new" /\ IsEmpty) => StageRank(tasks'[t].stage) >= 2]_vars

\* every task is done and its handle has settled with its outcome: the second task
\* was enqueued while the first one ran and failed, the last one after the handle of
\* the second one had been resolved and before the finally-handler ran
C31_Witness == MaxTasks >= 3 /\ (\A t \in TaskIds : tasks[t].stage = "done" /\ tasks[t].handle \in {"resolved", "rejected"}) /\ tasks[1].during = "idle" /\ tasks[1].handle = "rejected" /\ tasks[2].during = "running" /\ tasks[2].handle = "resolved" /\ tasks[3].during = "then" /\ tasks[3].handle = "resolved"

\* C32: disableInterrupt on an instance without a subscription changes nothing; on a
\* subscribed instance it removes the instance's watcher and decrements the use
\* count of its Gpio, and exactly when the count reaches zero the Gpio is unexported
\* and the line's registry entry deleted; the instance has no subscription
\* afterwards, so enableInterrupt is accepted again for any line; enableInterrupt for
\* a line without registry entry creates a new Gpio with use count 1.
C32_DisableReleasesAtZero ==
  [][/\ lastEvent'.op = "disableInterrupt" =>
          \A i \in Instances : (lastEvent'.inst = i /\ DisableInterrupt(i)) =>
            /\ gpio[i] = Null => UNCHANGED <<irqVars, engineVars, inflight>>
            /\ gpio[i] # Null =>
                 \A g \in GpioIds, l \in Lines : (gpio[i] = g /\ gpioPin[i] = l) =>
                   /\ \A k \in 1..Len(gpioObjs'[g].listeners) : gpioObjs'[g].listeners[k] # i
                   /\ Len(gpioObjs'[g].listeners) = Len(gpioObjs[g].listeners) - 1
                   /\ gpioObjs'[g].pcf857xUseCount = gpioObjs[g].pcf857xUseCount - 1
                   /\ (gpioObjs'[g].pcf857xUseCount = 0) <=> ~gpioObjs'[g].exported
                   /\ (gpioObjs'[g].pcf857xUseCount = 0) <=> (allInstancesUsedGpios'[l] = Null)
                   /\ gpioObjs'[g].pcf857xUseCount # 0 => allInstancesUsedGpios'[l] = g
                   /\ \A m \in Lines \ {l} : allInstancesUsedGpios'[m] = allInstancesUsedGpios[m]
                   /\ \A h \in GpioIds \ {g} : gpioObjs'[h] = gpioObjs[h]
                   /\ gpio'[i] = Null /\ gpioPin'[i] = Null /\ ~InterruptEnabled(gpio'[i])
                   /\ \A j \in Instances \ {i} : gpio'[j] = gpio[j] /\ gpioPin'[j] = gpioPin[j]
     /\ (lastEvent'.op = "enableInterrupt" /\ lastEvent'.result = "returned") =>
          \A i \in Instances, l \in Lines : (lastEvent'.inst = i /\ lastEvent'.pin = l /\ allInstancesUsedGpios[l] = Null) =>
            /\ gpio'[i] \in GpioIds /\ allInstancesUsedGpios'[l] = gpio'[i] /\ gpioPin'[i] = l
            /\ \A j \in Instances : gpio[j] # gpio'[i]
            /\ gpioObjs'[gpio'[i]] = [pin |-> l, pcf857xUseCount |-> 1, listeners |-> <<i>>, exported |-> TRUE]]_vars

\* the last subscriber of a line has just disabled: the line is released and has
\* no registry entry, while another line is still held by another instance
C32_Witness == lastEvent.op = "disableInterrupt" /\ lastEvent.pin \in Lines /\ Acquired(lastEvent.pin) = {} /\ allInstancesUsedGpios[lastEvent.pin] = Null /\ gpio[lastEvent.inst] = Null /\ \E l \in Lines \ {lastEvent.pin} : Subscribers(l) # {} /\ Acquired(l) # {}

\* C33: the polling flag of an instance is true exactly while a bus read of a poll
\* of the instance has been issued and its callback has not been delivered; it is
\* false after every read callback, successful or failed, so that a doPoll made
\* right after a failed poll is accepted and issues its read.
C33_PollingFlagTracksRead ==
  [][/\ \A i \in Instances : currentlyPolling'[i] <=> (Pending(i, "read")' # {})
     /\ lastEvent'.ev = "readCb" => ~currentlyPolling'[lastEvent'.inst]
     /\ (lastEvent.ev = "readCb" /\ lastEvent.result \in {"rejected", "swallowed"} /\ lastEvent.inst = Dev /\ lastEvent'.ev = "call" /\ lastEvent'.op = "doPoll") =>
          (lastEvent'.result = "pending" /\ currentlyPolling'[Dev] /\ inflight' = Append(inflight, Txn(Dev, "read", "doPoll", Null)))]_vars

\* a doPoll's read has just failed while a write of the instance is still pending:
\* the flag is false and no read is pending
C33_Witness == lastEvent.ev = "readCb" /\ lastEvent.op = "doPoll" /\ lastEvent.result = "rejected" /\ ~currentlyPolling[lastEvent.inst] /\ Pending(lastEvent.inst, "read") = {} /\ Pending(lastEvent.inst, "write") # {}

\* C34: an interrupt on line L makes a poll attempt on exactly the instances
\* subscribed to L then: each of them that is not polling gets one read issued and
\* its polling flag set (the attempt of one that is polling is rejected and changes
\* nothing); an instance not subscribed to L (never enabled, disabled, or subscribed
\* to another line) gets no read and keeps its flag, also when L has subscribers.
C34_InterruptPollsSubscribers ==
  [][lastEvent'.ev = "interrupt" =>
       \A l \in Lines : lastEvent'.pin = l =>
         /\ Subscribers(l) # {}
         /\ UNCHANGED <<irqVars, currentState, directions, inverted, inputPinBitmask>>
         /\ \A i \in Instances :
              /\ Cardinality(Pending(i, "read")') = Cardinality(Pending(i, "read")) + (IF i \in Subscribers(l) /\ ~currentlyPolling[i] THEN 1 ELSE 0)
              /\ currentlyPolling'[i] = (currentlyPolling[i] \/ i \in Subscribers(l))
              /\ \A k \in Pending(i, "read")' : k > Len(inflight) => inflight'[k] = Txn(i, "read", "irq", Null)
         /\ \A k \in 1..Len(inflight) : inflight'[k] = inflight[k]]_vars

\* an interrupt has just come on a line with a subscriber, which got a read, while
\* another instance that is not subscribed to the line got none
C34_Witness == lastEvent.ev = "interrupt" /\ lastEvent.pin \in Lines /\ (\E i \in Subscribers(lastEvent.pin) : Pending(i, "read") # {} /\ currentlyPolling[i]) /\ (\E j \in Instances \ Subscribers(lastEvent.pin) : Pending(j, "read") = {} /\ ~currentlyPolling[j])

\* C35: of two setPin calls on different Output pins made one right after the other,
\* the second computes its state from the state the first has stored: after it
\* currentState has both new bits, the bytes of its write carry both (each XOR its
\* inverted flag), getPinValue returns both new values, and the callbacks of the
\* writes leave currentState as it is.
C35_BackToBackSetPinKeepsBoth ==
  [][/\ \A p \in 0..MaxPin, q \in 0..MaxPin :
          (p # q /\ lastEvent.ev = "call" /\ lastEvent.op = "setPin" /\ lastEvent.result = "pending" /\ lastEvent.pin = p
             /\ lastEvent'.ev = "call" /\ lastEvent'.op = "setPin" /\ lastEvent'.result = "pending" /\ lastEvent'.pin = q) =>
            /\ GetPinValue(Dev, p)' = lastEvent.value
            /\ GetPinValue(Dev, q)' = lastEvent'.value
            /\ WireBit(lastEvent'.wire, p) = (IF lastEvent.value # (Bit(inverted[Dev], p) = 1) THEN 1 ELSE 0)
            /\ WireBit(lastEvent'.wire, q) = (IF lastEvent'.value # (Bit(inverted[Dev], q) = 1) THEN 1 ELSE 0)
            /\ \A r \in (0..(Pins(Dev) - 1)) \ {q} : Bit(currentState'[Dev], r) = Bit(currentState[Dev], r)
            /\ Len(inflight') = Len(inflight) + 1
     /\ lastEvent'.ev = "writeCb" => currentState' = currentState]_vars

\* setPin on two different Output pins, one of them inverted, has been called twice
\* in a row; both writes are pending, and both pins have values that differ from
\* the pins never configured
C35_Witness == lastEvent.ev = "call" /\ lastEvent.op = "setPin" /\ lastEvent.result = "pending" /\ Len(inflight) = 2 /\ (\E p \in (0..MaxPin) \ {lastEvent.pin} : directions[Dev][p] = DIR_OUT /\ Bit(currentState[Dev], p) # Bit(currentState[Dev], Pins(Dev) - 1) /\ Bit(lastEvent.prev, p) = Bit(currentState[Dev], p) /\ Bit(inverted[Dev], p) # Bit(inverted[Dev], lastEvent.pin)) /\ Bit(currentState[Dev], lastEvent.pin) # Bit(currentState[Dev], Pins(Dev) - 1) /\ Bit(lastEvent.prev, lastEvent.pin) # Bit(currentState[Dev], lastEvent.pin)

\* C36 as stated: while a task is running (started, not yet settled) it is still an
\* element of queue; it is removed only after it has settled.
C36_RunningTaskStaysInQueue == \A t \in TaskIds : Running(t) => \E k \in 1..Len(queue) : queue[k] = t

\* C36 amended: dequeue removes a task from queue when it starts it, before its
\* function is called: the elements of queue are the tasks that have not been
\* started, a task that runs (or has settled and waits for its finally-handler) is
\* not in queue; it is accounted for by working, which is true exactly while there
\* is such a task.
C36_RunningTaskNotInQueue ==
  /\ \A t \in TaskIds : Started(t) => \A k \in 1..Len(queue) : queue[k] # t
  /\ \A t \in TaskIds : tasks[t].stage = "queued" => Cardinality({k \in 1..Len(queue) : queue[k] = t}) = 1
  /\ working <=> (\E t \in TaskIds : Active(t))

\* the first task runs, the others wait in queue
C36_Witness == Running(1) /\ working /\ Len(queue) = MaxTasks - 1 /\ queue[1] = 2 /\ tasks[2].stage = "queued"

\* the values of pinCount bits
InRange(x, type) == x \in 0..(Pow2(PinsOf(type)) - 1)

\* C37: in every reachable state currentState, the inverted mask and the input mask
\* of an instance are within 0..2^pinCount - 1, and so is the value of every write:
\* its bytes are pinCount/8 bytes of 0..255 that hold (currentState XOR inverted) OR
\* inputPinBitmask in full; the state an accepted construction stores and writes is
\* in that range too.
C37_MasksWithinPinCount ==
  /\ \A i \in Instances : InRange(currentState[i], icType[i]) /\ InRange(inverted[i], icType[i]) /\ InRange(inputPinBitmask[i], icType[i])
  /\ \A i \in Instances : InRange(BitOr(BitXor(currentState[i], inverted[i]), inputPinBitmask[i]), icType[i])
  /\ (lastEvent.ev = "call" /\ lastEvent.wire # <<>>) =>
       /\ Len(lastEvent.wire) = WireLen(icType[lastEvent.inst])
       /\ \A k \in 1..Len(lastEvent.wire) : lastEvent.wire[k] \in 0..255
       /\ ReadStateOf(icType[lastEvent.inst], lastEvent.wire) = BitOr(BitXor(currentState[lastEvent.inst], inverted[lastEvent.inst]), inputPinBitmask[lastEvent.inst])
  /\ \A args \in ConstructorArgs : Constructor(args.address, args.initialState, args.type).ok =>
       /\ InRange(Constructor(args.address, args.initialState, args.type).state, args.type)
       /\ ReadStateOf(args.type, Constructor(args.address, args.initialState, args.type).written) = Constructor(args.address, args.initialState, args.type).state

\* setAllPins(true) has just been called on a 16-pin device with an inverted Input
\* pin and an Output pin, after a poll set the Input pin's bit: every bit of
\* currentState is set
C37_Witness == lastEvent.ev = "call" /\ lastEvent.op = "setAllPins" /\ lastEvent.value /\ icType[lastEvent.inst] = "PCF8575" /\ currentState[lastEvent.inst] = 65535 /\ lastEvent.prev # 65535 /\ inverted[lastEvent.inst] # 0 /\ inputPinBitmask[lastEvent.inst] # 0 /\ (\E p \in 0..MaxPin : directions[lastEvent.inst][p] = DIR_OUT)

\* what the listeners of the read that instance i completes in this step see
ViewsOfStep(i) == ListenerViews(currentState[i], Corrected(i, lastEvent'.read), directions[i], 0, Pins(i), lastEvent'.pin, <<>>)

\* C38: when an 'input' event {pin, value} is delivered, the currentState bit of pin
\* is value already, so getPinValue(pin) called in the listener returns value; the
\* events delivered are the ones the read emits, in order.
C38_StateSetBeforeEmit ==
  [][(lastEvent'.ev = "readCb" /\ lastEvent'.result = "resolved") =>
       \A i \in Instances : lastEvent'.inst = i =>
         /\ Len(ViewsOfStep(i)) = Len(emitted')
         /\ \A k \in 1..Len(ViewsOfStep(i)) :
              /\ emitted'[k] = [pin |-> ViewsOfStep(i)[k].pin, value |-> ViewsOfStep(i)[k].value]
              /\ (Bit(ViewsOfStep(i)[k].state, ViewsOfStep(i)[k].pin) # 0) = ViewsOfStep(i)[k].value
              /\ Bit(currentState'[i], ViewsOfStep(i)[k].pin) = Bit(ViewsOfStep(i)[k].state, ViewsOfStep(i)[k].pin)]_vars

\* a read has just emitted two events with different values: when the first one was
\* delivered the second pin still had its old bit
C38_Witness == lastEvent.ev = "readCb" /\ lastEvent.result = "resolved" /\ Len(emitted) = 2 /\ emitted[1].value # emitted[2].value /\ (Bit(currentState[lastEvent.inst], emitted[1].pin) = 1) = emitted[1].value /\ (Bit(currentState[lastEvent.inst], emitted[2].pin) = 1) = emitted[2].value

\* the step is a call of inputPin or outputPin on pin p of Dev, or the completion of
\* the baseline poll of an inputPin on p
ConfiguresPin(p) == lastEvent'.pin = p /\ lastEvent'.op \in {"inputPin", "outputPin"} /\ lastEvent'.ev \in {"call", "readCb"}

\* the places in emitted' of the events for pin p
EventsFor(p) == {k \in 1..Len(emitted') : emitted'[k].pin = p}

====
